---- MODULE Spec2Model ----
(***************************************************************************)
(* Model of the SEC filings agent: the retrying fetcher, the ticker table  *)
(* cache, the submissions cache and the filings.stream poller              *)
(* (src/src/lib/sec.ts, src/src/lib/agent.ts).                             *)
(***************************************************************************)
EXTENDS Integers, Sequences, FiniteSets, TLC

(***************************************************************************)
(* Program constants                                                       *)
(***************************************************************************)
\* fetchJson passes { retries: 4, baseDelayMs: 350 } (sec.ts:112)
Retries == 4
\* requireSecUserAgent: ua.trim().length < 10 (sec.ts:31)
MinUserAgentLen == 10
\* getSubmissions default cacheTtlMs (sec.ts:187)
DefaultCacheTtlMs == 30000
\* filings.stream passes cacheTtlMs: 5_000 (agent.ts:431)
StreamCacheTtlMs == 5000

(***************************************************************************)
(* Bounds of the model                                                     *)
(***************************************************************************)
\* number of concurrent async callers (each owns one fetchJson job)
NJobs == 3

JobIds == 1..NJobs

\* the bodies upstream may answer for a submissions document
SnapshotIds == 1..2

(***************************************************************************)
(* Strings as sequences of characters                                      *)
(***************************************************************************)
Rep(c, n) == [i \in 1..n |-> c]

IsSpace(c) == c = " "

RECURSIVE TrimStart(_)
TrimStart(s) ==
  IF s = <<>> THEN <<>>
  ELSE IF IsSpace(Head(s)) THEN TrimStart(Tail(s)) ELSE s

RECURSIVE TrimEnd(_)
TrimEnd(s) ==
  IF s = <<>> THEN <<>>
  ELSE IF IsSpace(s[Len(s)]) THEN TrimEnd(SubSeq(s, 1, Len(s) - 1)) ELSE s

\* String.prototype.trim
Trim(s) == TrimEnd(TrimStart(s))

(***************************************************************************)
(* process.env.SEC_USER_AGENT: unset, or a string                          *)
(***************************************************************************)
EnvUnset == [set |-> FALSE, val |-> <<>>]
EnvStr(s) == [set |-> TRUE, val |-> s]

UserAgentValues ==
  { EnvUnset,
    EnvStr(<<>>),
    EnvStr(Rep("a", 9)),
    EnvStr(Rep(" ", 12)),
    EnvStr(<<" ">> \o Rep("a", 9) \o <<" ">>),
    EnvStr(Rep("a", 10)),
    EnvStr(<<" ">> \o Rep("a", 10)) }

\* requireSecUserAgent (mutant: length test without trim)
requireSecUserAgentNoTrim(env) ==
  IF ~env.set \/ env.val = <<>> \/ Len(env.val) < MinUserAgentLen
  THEN [ok |-> FALSE, ua |-> <<>>]
  ELSE [ok |-> TRUE, ua |-> env.val]

\* requireSecUserAgent: throws when !ua || ua.trim().length < 10, else
\* returns the untrimmed value
requireSecUserAgent(env) ==
  IF ~env.set \/ env.val = <<>> \/ Len(Trim(env.val)) < MinUserAgentLen
  THEN [ok |-> FALSE, ua |-> <<>>]
  ELSE [ok |-> TRUE, ua |-> env.val]

(***************************************************************************)
(* Upstream outcomes of one fetch(url, init)                               *)
(***************************************************************************)
StatusCodes == {200, 400, 404, 408, 429, 500, 501, 502, 503, 504}
NetErrors == {"E1", "E2"}

Http(s) == [kind |-> "http", status |-> s, err |-> "none"]
NetErr(e) == [kind |-> "neterr", status |-> 0, err |-> e]

AllOutcomes == {Http(s) : s \in StatusCodes} \cup {NetErr(e) : e \in NetErrors}
\* the reduced outcome set used where several callers run concurrently
FewOutcomes == {Http(200), Http(404), Http(503), NetErr("E1")}

\* Response.ok
ResOk(status) == status >= 200 /\ status <= 299

\* the retryable test of fetchWithRetry (mutant: 408 forgotten)
RetryableNo408(status) == status \in {429, 500, 502, 503, 504}

\* the retryable test of fetchWithRetry
Retryable(status) ==
  \/ status = 429
  \/ status = 408
  \/ status = 500
  \/ status = 502
  \/ status = 503
  \/ status = 504

(***************************************************************************)
(* One step of the fetchWithRetry loop: what the loop does with the        *)
(* outcome of attempt number `attempt` (counted from 0).                   *)
(***************************************************************************)
NoFwr == [kind |-> "none", status |-> 0, err |-> "none"]
FwrResponse(s) == [kind |-> "response", status |-> s, err |-> "none"]
FwrThrow(e) == [kind |-> "throw", status |-> 0, err |-> e]

\* mutant: the loop bound is off by one (attempt <= retries + 1)
fetchWithRetryStepOffByOne(attempt, lastErr, o, retries) ==
  IF o.kind = "http"
  THEN IF ResOk(o.status) \/ ~Retryable(o.status) \/ attempt = retries + 1
       THEN [next |-> "return", fwr |-> FwrResponse(o.status), lastErr |-> lastErr]
       ELSE [next |-> "sleep", fwr |-> NoFwr, lastErr |-> lastErr]
  ELSE IF attempt = retries + 1
       THEN [next |-> "throw", fwr |-> FwrThrow(o.err), lastErr |-> o.err]
       ELSE [next |-> "sleep", fwr |-> NoFwr, lastErr |-> o.err]

\* mutant: an exhausted transient HTTP response is thrown, not returned
fetchWithRetryStepThrowHttp(attempt, lastErr, o, retries) ==
  IF o.kind = "http"
  THEN IF ResOk(o.status) \/ ~Retryable(o.status)
       THEN [next |-> "return", fwr |-> FwrResponse(o.status), lastErr |-> lastErr]
       ELSE IF attempt = retries
            THEN [next |-> "throw", fwr |-> FwrThrow(lastErr), lastErr |-> lastErr]
            ELSE [next |-> "sleep", fwr |-> NoFwr, lastErr |-> lastErr]
  ELSE IF attempt = retries
       THEN [next |-> "throw", fwr |-> FwrThrow(o.err), lastErr |-> o.err]
       ELSE [next |-> "sleep", fwr |-> NoFwr, lastErr |-> o.err]

\* mutant: a 2xx response after a failure is treated as one more failure
fetchWithRetryStepOkOnlyFirst(attempt, lastErr, o, retries) ==
  IF o.kind = "http"
  THEN IF \/ (ResOk(o.status) /\ attempt = 0)
          \/ (~Retryable(o.status) /\ ~ResOk(o.status))
          \/ attempt = retries
       THEN [next |-> "return", fwr |-> FwrResponse(o.status), lastErr |-> lastErr]
       ELSE [next |-> "sleep", fwr |-> NoFwr, lastErr |-> lastErr]
  ELSE IF attempt = retries
       THEN [next |-> "throw", fwr |-> FwrThrow(o.err), lastErr |-> o.err]
       ELSE [next |-> "sleep", fwr |-> NoFwr, lastErr |-> o.err]

\* fetchWithRetry, body of the for loop (sec.ts:65-94) and the throw after it
fetchWithRetryStep(attempt, lastErr, o, retries) ==
  IF o.kind = "http"
  THEN \* try branch: res.ok, retryable, attempt === retries
       IF ResOk(o.status)
       THEN [next |-> "return", fwr |-> FwrResponse(o.status), lastErr |-> lastErr]
       ELSE IF ~Retryable(o.status) \/ attempt = retries
            THEN [next |-> "return", fwr |-> FwrResponse(o.status), lastErr |-> lastErr]
            ELSE [next |-> "sleep", fwr |-> NoFwr, lastErr |-> lastErr]
  ELSE \* catch branch: lastErr = e; break on the last attempt, then throw lastErr
       IF attempt = retries
       THEN [next |-> "throw", fwr |-> FwrThrow(o.err), lastErr |-> o.err]
       ELSE [next |-> "sleep", fwr |-> NoFwr, lastErr |-> o.err]

(***************************************************************************)
(* Ticker symbols and the ticker table                                     *)
(***************************************************************************)
\* bound: number of cikFromTicker calls made in one run
MaxTickerCalls == 4

UpperChar(c) ==
  CASE c = "a" -> "A"
    [] c = "b" -> "B"
    [] c = "z" -> "Z"
    [] c = "k" -> "K"
    [] OTHER -> c

\* String.prototype.toUpperCase
toUpperCase(s) == [i \in 1..Len(s) |-> UpperChar(s[i])]

Row(t, c) == [ticker |-> t, cik_str |-> c]

\* the bodies upstream may answer for company_tickers.json, as the rows of
\* Object.values(obj) in iteration order
TickerTables ==
  << << Row(<<"a", "b">>, 7), Row(<<"B">>, 9), Row(<<"A", "B">>, 8) >>,
     << Row(<<"b">>, 5), Row(<<"A", "b">>, 7), Row(<<"k">>, 0) >> >>

TickerInputs == { <<"a", "b">>, <<"A", "B">>, <<"z">>, <<"K">> }

\* mutant: a symbol already in the map keeps its identifier
MapSetKeepFirst(m, k, v) ==
  [x \in (DOMAIN m) \cup {k} |-> IF x \in DOMAIN m THEN m[x] ELSE v]

\* Map.prototype.set
MapSet(m, k, v) == [x \in (DOMAIN m) \cup {k} |-> IF x = k THEN v ELSE m[x]]

\* getTickerMap: for (const row of Object.values(obj)) map.set(...)
RECURSIVE BuildTickerMap(_, _)
BuildTickerMap(rows, m) ==
  IF rows = <<>> THEN m
  ELSE BuildTickerMap(Tail(rows),
                      MapSet(m, toUpperCase(Head(rows).ticker), Head(rows).cik_str))

(***************************************************************************)
(* Identifiers (CIK): a number, or a string of decimal digits              *)
(***************************************************************************)
CikNum(n) == [type |-> "number", num |-> n, str |-> <<>>]
CikStr(s) == [type |-> "string", num |-> 0, str |-> s]

\* parseInt(s, 10) of a string of digits
RECURSIVE ParseInt(_)
ParseInt(s) ==
  IF s = <<>> THEN 0
  ELSE 10 * ParseInt(SubSeq(s, 1, Len(s) - 1)) + s[Len(s)]

\* String(n) of a non-negative integer, as its digits
RECURSIVE NumToString(_)
NumToString(n) ==
  IF n < 10 THEN <<n>> ELSE NumToString(n \div 10) \o <<n % 10>>

\* normalizeCik
normalizeCik(cik) ==
  NumToString(IF cik.type = "number" THEN cik.num ELSE ParseInt(cik.str))

\* s.replace(/^0+/, '')
RECURSIVE StripLeadingZeros(_)
StripLeadingZeros(s) ==
  IF s = <<>> THEN <<>>
  ELSE IF Head(s) = 0 THEN StripLeadingZeros(Tail(s)) ELSE s

\* s.padStart(n, '0')
PadStart(s, n) == IF Len(s) >= n THEN s ELSE [i \in 1..(n - Len(s)) |-> 0] \o s

\* mutant: the leading zeros are stripped but the result is not padded
padCikNoPad(s) == StripLeadingZeros(s)

\* padCik, applied by getSubmissions to the normalized string
padCik(s) == PadStart(StripLeadingZeros(s), 10)

SubmissionsUrl(normalized) == <<"data.sec.gov/submissions/CIK", padCik(normalized), ".json">>

CikInputs == { CikNum(7), CikStr(<<0, 0, 7>>), CikStr(<<4, 2>>) }

CacheKeys == { normalizeCik(c) : c \in CikInputs }

\* the cacheTtlMs values the callers of getSubmissions pass
TtlValues == { DefaultCacheTtlMs, StreamCacheTtlMs }


\* bound: number of concurrent getSubmissions callers
NCallers == 2
CallerIds == 1..NCallers
\* the values Date.now() takes in a run (ms), around the two ttl boundaries
ClockInstants == { 0, 4999, 5000, 30000 }

(***************************************************************************)
(* Filings: the column-oriented `recent` block, its rows, the form filter  *)
(* and the primary document URL.  Scalars are strings (sequences of        *)
(* characters); null and undefined are two values that are no string.      *)
(***************************************************************************)
Null == <<"null">>
Undefined == <<"undefined">>

\* JavaScript truthiness of a string | null | undefined
Truthy(v) == v # Null /\ v # Undefined /\ v # <<>>

\* an optional column: absent, or a sequence of values
NoColumn == [present |-> FALSE, vals |-> <<>>]
Column(vals) == [present |-> TRUE, vals |-> vals]

\* arr[i] (i counted from 0): undefined past the end
Index(arr, i) == IF i + 1 <= Len(arr) THEN arr[i + 1] ELSE Undefined

\* mutant: recent.col?.[i] without `?? null`
OptIndexNoDefault(col, i) == IF ~col.present THEN Undefined ELSE Index(col.vals, i)

\* recent.col?.[i] ?? null
OptIndex(col, i) ==
  IF ~col.present THEN Null
  ELSE IF Index(col.vals, i) = Undefined THEN Null
  ELSE Index(col.vals, i)

NoRecent ==
  [present |-> FALSE, accessionNumber |-> <<>>, filingDate |-> <<>>, form |-> <<>>,
   primaryDocument |-> NoColumn, size |-> NoColumn]

Recent(acc, dates, forms, docs, sizes) ==
  [present |-> TRUE, accessionNumber |-> acc, filingDate |-> dates, form |-> forms,
   primaryDocument |-> docs, size |-> sizes]

\* recentFilingsToItems: the row built for index i
FilingItemAt(recent, i) ==
  [accessionNumber |-> Index(recent.accessionNumber, i),
   filingDate |-> Index(recent.filingDate, i),
   form |-> Index(recent.form, i),
   primaryDocument |-> OptIndex(recent.primaryDocument, i),
   size |-> OptIndex(recent.size, i)]

\* recentFilingsToItems
recentFilingsToItems(recent) ==
  IF ~recent.present THEN <<>>
  ELSE [k \in 1..Len(recent.accessionNumber) |-> FilingItemAt(recent, k - 1)]

\* input.forms?.length ? new Set(input.forms.map(f => f.toUpperCase())) : null
NoForms == [present |-> FALSE, vals |-> <<>>]
Forms(vals) == [present |-> TRUE, vals |-> vals]
FormsSet(forms) ==
  IF forms.present /\ Len(forms.vals) > 0
  THEN [isNull |-> FALSE, set |-> { toUpperCase(forms.vals[i]) : i \in 1..Len(forms.vals) }]
  ELSE [isNull |-> TRUE, set |-> {}]

\* item => (formsSet ? formsSet.has(item.form.toUpperCase()) : true)
FormMatches(formsSet, item) ==
  IF formsSet.isNull THEN TRUE ELSE toUpperCase(item.form) \in formsSet.set

\* item.form.toUpperCase() throws a TypeError on a row without form
FilterThrows(formsSet, items) ==
  /\ ~formsSet.isNull
  /\ \E k \in 1..Len(items) : items[k].form \in {Undefined, Null}

\* Array.prototype.filter
RECURSIVE SelectItems(_, _)
SelectItems(formsSet, items) ==
  IF items = <<>> THEN <<>>
  ELSE IF FormMatches(formsSet, Head(items))
       THEN <<Head(items)>> \o SelectItems(formsSet, Tail(items))
       ELSE SelectItems(formsSet, Tail(items))

\* accessionNoDashes: accession.replace(/-/g, '')
RECURSIVE accessionNoDashes(_)
accessionNoDashes(accession) ==
  IF accession = <<>> THEN <<>>
  ELSE IF Head(accession) = "-" THEN accessionNoDashes(Tail(accession))
  ELSE <<Head(accession)>> \o accessionNoDashes(Tail(accession))

\* buildPrimaryDocUrl: https://www.sec.gov/Archives/edgar/data/{cik}/{acc}/{doc}
NoUrl == [present |-> FALSE, cik |-> <<>>, acc |-> <<>>, doc |-> <<>>]

\* mutant: the accession number goes into the path as it is
buildPrimaryDocUrlKeepDashes(cik, accessionNumber, primaryDocument) ==
  [present |-> TRUE, cik |-> normalizeCik(cik), acc |-> accessionNumber,
   doc |-> primaryDocument]

buildPrimaryDocUrl(cik, accessionNumber, primaryDocument) ==
  [present |-> TRUE, cik |-> normalizeCik(cik),
   acc |-> accessionNoDashes(accessionNumber), doc |-> primaryDocument]

\* item.primaryDocument && item.accessionNumber ? buildPrimaryDocUrl(...) : undefined
PrimaryDocUrlOf(cik, item) ==
  IF Truthy(item.primaryDocument) /\ Truthy(item.accessionNumber)
  THEN buildPrimaryDocUrl(cik, item.accessionNumber, item.primaryDocument)
  ELSE NoUrl

(***************************************************************************)
(* The submissions documents upstream may answer for the polled entity     *)
(***************************************************************************)
AccA == <<"0", "7", "-", "A">>
AccB == <<"0", "7", "-", "B">>
AccX == <<"0", "7", "-", "X">>
Form10K == <<"1", "0", "-", "K">>
Form10k == <<"1", "0", "-", "k">>
Form8K == <<"8", "-", "K">>
DocA == <<"a", ".", "h">>
Date1 == <<"d", "1">>

Snapshot(cik, recent) == [cik |-> cik, recent |-> recent]

Snapshots ==
  << \* 1: the latest filing is A
     Snapshot(CikStr(<<0, 0, 7>>),
       Recent(<<AccA>>, <<Date1>>, <<Form10K>>, Column(<<DocA>>), NoColumn)),
     \* 2: an 8-K X, then B (form in lower case, no document), then A
     Snapshot(CikStr(<<0, 0, 7>>),
       Recent(<<AccX, AccB, AccA>>, <<Date1, Date1, Date1>>, <<Form8K, Form10k, Form10K>>,
              Column(<<DocA, Null>>), Column(<<<<"9">>>>))),
     \* 3: no recent block
     Snapshot(CikStr(<<0, 0, 7>>), NoRecent),
     \* 4: a row whose accession number is the empty string
     Snapshot(CikStr(<<0, 0, 7>>),
       Recent(<< <<>> >>, <<Date1>>, <<Form10K>>, NoColumn, NoColumn)),
     \* 5: the form column is shorter than the accession column
     Snapshot(CikStr(<<0, 0, 7>>),
       Recent(<<AccB, AccA>>, <<Date1, Date1>>, <<Form10K>>, NoColumn, NoColumn)),
     \* 6: an 8-K X alone
     Snapshot(CikStr(<<0, 0, 7>>),
       Recent(<<AccX>>, <<Date1>>, <<Form8K>>, NoColumn, NoColumn)) >>

(***************************************************************************)
(* The wait between two attempts of fetchWithRetry                         *)
(***************************************************************************)
\* fetchJson passes baseDelayMs: 350 (sec.ts:112)
BaseDelayMs == 350
\* Math.random() * 150 (sec.ts:84, 91)
JitterSpanMs == 150

\* a JavaScript number: an integer, or NaN
Num(n) == [nan |-> FALSE, n |-> n]
NaN == [nan |-> TRUE, n |-> 0]

DecimalDigits == <<"0", "1", "2", "3", "4", "5", "6", "7", "8", "9">>
IsDigit(c) == \E i \in 1..10 : DecimalDigits[i] = c
DigitOf(c) == (CHOOSE i \in 1..10 : DecimalDigits[i] = c) - 1

\* the longest prefix of decimal digits
RECURSIVE DigitPrefix(_)
DigitPrefix(s) ==
  IF s = <<>> \/ ~IsDigit(Head(s)) THEN <<>> ELSE <<Head(s)>> \o DigitPrefix(Tail(s))

RECURSIVE DigitsValue(_)
DigitsValue(s) ==
  IF s = <<>> THEN 0 ELSE 10 * DigitsValue(SubSeq(s, 1, Len(s) - 1)) + DigitOf(s[Len(s)])

\* parseInt(s, 10) of any string: leading white space, an optional sign, then
\* the longest prefix of digits; NaN when there is no digit
ParseIntJs(s) ==
  LET t == TrimStart(s)
      neg == t # <<>> /\ Head(t) = "-"
      u == IF t # <<>> /\ Head(t) \in {"-", "+"} THEN Tail(t) ELSE t
      p == DigitPrefix(u)
  IN IF p = <<>> THEN NaN
     ELSE Num(IF neg THEN 0 - DigitsValue(p) ELSE DigitsValue(p))

\* Math.round(num / den) for num >= 0
Round(num, den) == (2 * num + den) \div (2 * den)

RECURSIVE Pow2(_)
Pow2(k) == IF k = 0 THEN 1 ELSE 2 * Pow2(k - 1)

\* Math.max(a, b): NaN when either argument is NaN
MathMax(a, b) ==
  IF a.nan \/ b.nan THEN NaN ELSE Num(IF a.n >= b.n THEN a.n ELSE b.n)

\* Math.random() as a fraction r / RandomDenominator, 0 <= r < RandomDenominator
RandomDenominator == 1000
RandomValues == { 0, 3, 4, 500, 996, 997, 999 }

\* res.headers.get('retry-after'): null, or the header's text (delay seconds,
\* or an HTTP date)
HttpDate ==
  <<"W", "e", "d", ",", " ", "2", "1", " ", "O", "c", "t", " ", "2", "0", "1", "5",
    " ", "0", "7", ":", "2", "8", ":", "0", "0", " ", "G", "M", "T">>
RetryAfterValues ==
  { Null, <<>>, <<"0">>, <<"2">>, <<"1", "2", "0">>, HttpDate }

\* retryAfter ? parseInt(retryAfter, 10) * 1000 : 0
retryAfterMs(retryAfter) ==
  IF ~Truthy(retryAfter) THEN Num(0)
  ELSE LET v == ParseIntJs(retryAfter) IN IF v.nan THEN NaN ELSE Num(v.n * 1000)

\* mutant: the delay grows linearly with the attempt
backoffMsLinear(attempt) == Round(BaseDelayMs * (attempt + 1), 1)

\* Math.round(baseDelayMs * Math.pow(2, attempt))
backoffMs(attempt) == Round(BaseDelayMs * Pow2(attempt), 1)

\* Math.round(Math.random() * 150)
jitterMs(random) == Round(random * JitterSpanMs, RandomDenominator)

NoSleep ==
  [branch |-> "none", retryAfter |-> Null, random |-> 0, backoffMs |-> 0, jitterMs |-> 0, ms |-> Num(0)]

\* the locals of the iteration that sleeps and the argument of sleep():
\* Math.max(retryAfterMs, backoffMs + jitterMs) after a transient response,
\* backoffMs + jitterMs in the catch block
SleepOf(o, attempt, retryAfter, random) ==
  LET b == backoffMs(attempt)
      j == jitterMs(random)
  IN [branch |-> IF o.kind = "http" THEN "try" ELSE "catch",
      retryAfter |-> IF o.kind = "http" THEN retryAfter ELSE Null,
      random |-> random, backoffMs |-> b, jitterMs |-> j,
      ms |-> IF o.kind = "http" THEN MathMax(retryAfterMs(retryAfter), Num(b + j))
             ELSE Num(b + j)]

(***************************************************************************)
(* State                                                                   *)
(***************************************************************************)
VARIABLES
  env,        \* process.env.SEC_USER_AGENT
  jobs,       \* one fetchJson invocation per async caller: its position and locals
  outcomes,   \* history: the upstream outcomes of the fetchWithRetry call of job 1
  headers,    \* history: the User-Agent header values of the requests issued
  tickerMapPromise, \* module variable of sec.ts: 0 (null) or the promise it refers to
  promises,   \* the promises created by getTickerMap, in creation order
  tcallers,   \* the cikFromTicker calls: position, argument, awaited promise, result
  tcalls,     \* history: number of cikFromTicker calls made
  now,        \* Date.now()
  submissionsCache, \* module variable of sec.ts: key -> { at, value } or absent
  calls,      \* the getSubmissions calls: position, locals, result
  input,      \* ctx.input of the filings.stream invocation
  aborted,    \* ctx.signal.aborted
  abortedAt,  \* history: where the stream function was when the signal was set
  stream,     \* the stream function: position, lastAccession, sent, the event
              \* being emitted, the poll timer, the returned summary
  events,     \* history: the events delivered to the consumer, in order
  polls,      \* history: what getSubmissions gave each iteration (0: an error)
  listing     \* the filings.recent handler: position, ctx.input, locals, output

fetchVars == <<env, jobs, outcomes, headers>>
tickerVars == <<tickerMapPromise, promises, tcallers, tcalls>>
cacheVars == <<now, submissionsCache, calls>>
streamVars == <<input, aborted, abortedAt, stream, events, polls>>
recentVars == <<listing>>

vars ==
  <<env, jobs, outcomes, headers, tickerMapPromise, promises, tcallers, tcalls,
    now, submissionsCache, calls, input, aborted, abortedAt,
    stream, events, polls, listing>>

(***************************************************************************)
(* fetchJson / fetchWithRetry as a step machine.  The steps are the code   *)
(* between two awaits: the call up to the first fetch(), the arrival of a  *)
(* response or network exception, the end of a backoff sleep, the reading  *)
(* of the body.                                                            *)
(***************************************************************************)
NoOut ==
  [kind |-> "none", cause |-> "none", status |-> 0, err |-> "none", data |-> 0,
   excerpt |-> <<>>]
OutData(d) == [NoOut EXCEPT !.kind = "data", !.status = 200, !.data = d]
OutError(c, s, e) == [NoOut EXCEPT !.kind = "error", !.cause = c, !.status = s, !.err = e]

\* the bodies of non-2xx answers (res.text(); '' also when reading it fails)
MaxExcerptLen == 200
ErrorBodies == { <<>>, Rep("x", 3), Rep("x", MaxExcerptLen), Rep("x", MaxExcerptLen + 1) }

\* text.slice(0, 200)
Slice(text, n) == IF Len(text) <= n THEN text ELSE SubSeq(text, 1, n)

\* mutant: the status of the response is not looked at
fetchJsonResultNoCheck(status, body, parsed, text) ==
  IF parsed THEN OutData(body) ELSE OutError("parse", 0, "none")

\* fetchJson lines 115-124, from the response fetchWithRetry returned:
\* `SEC fetch failed {status} ... : {text.slice(0, 200)}` on !res.ok, else
\* res.json() and schema.parse, which may throw
fetchJsonResult(status, body, parsed, text) ==
  IF ~ResOk(status)
  THEN [OutError("http", status, "none") EXCEPT !.excerpt = Slice(text, MaxExcerptLen)]
  ELSE IF parsed THEN OutData(body)
  ELSE OutError("parse", 0, "none")

IdleJob ==
  [pc |-> "idle", attempt |-> 0, nreq |-> 0, lastErr |-> "none", fwr |-> NoFwr,
   ua |-> <<>>, url |-> <<>>, body |-> 0, text |-> <<>>, out |-> NoOut,
   sleep |-> NoSleep]

TickersUrl == <<"www.sec.gov/files/company_tickers.json">>

\* fetchJson up to its first await: requireSecUserAgent(), then fetchWithRetry
\* enters its loop with attempt = 0 and calls fetch(url, init)
fetchJsonStart(j, url) ==
  LET r == requireSecUserAgent(env) IN
  IF ~r.ok
  THEN /\ jobs' = [jobs EXCEPT ![j] =
                     [IdleJob EXCEPT !.pc = "done", !.url = url,
                                     !.out = OutError("precondition", 0, "none")]]
       /\ headers' = headers
  ELSE /\ jobs' = [jobs EXCEPT ![j] =
                     [IdleJob EXCEPT !.pc = "fetching", !.url = url, !.ua = r.ua,
                                     !.nreq = 1]]
       /\ headers' = headers \cup {r.ua}

\* the awaited fetch() settles with outcome o (body: the payload of a 2xx
\* answer, retryAfter: the retry-after header of the response, random: what
\* Math.random() returns if the loop goes to sleep)
fetchAnswered(j, o, body, retryAfter, random) ==
  /\ jobs[j].pc = "fetching"
  /\ LET job == jobs[j]
         st == fetchWithRetryStep(job.attempt, job.lastErr, o, Retries)
     IN jobs' = [jobs EXCEPT ![j] =
          CASE st.next = "sleep" ->
                 [job EXCEPT !.pc = "backoff", !.lastErr = st.lastErr,
                             !.sleep = SleepOf(o, job.attempt, retryAfter, random)]
            [] st.next = "throw" ->
                 \* fetchJson does not catch: the exception is its own failure
                 [job EXCEPT !.pc = "done", !.lastErr = st.lastErr, !.fwr = st.fwr,
                             !.out = OutError("network", 0, st.fwr.err)]
            [] OTHER ->
                 \* fetchJson line 115: !res.ok reads res.text(), else res.json()
                 [job EXCEPT !.pc = IF ResOk(st.fwr.status) THEN "json" ELSE "text",
                             !.fwr = st.fwr,
                             !.body = IF ResOk(st.fwr.status) THEN body ELSE 0]]
  /\ headers' = headers

\* the same, for a response without retry-after header and Math.random() = 0
fetchSettled(j, o, body) == fetchAnswered(j, o, body, Null, 0)

\* the backoff sleep of fetchWithRetry ends: attempt++ and the next fetch()
fetchBackoffDone(j) ==
  /\ jobs[j].pc = "backoff"
  /\ jobs' = [jobs EXCEPT ![j] =
                [@ EXCEPT !.pc = "fetching", !.attempt = @ + 1, !.nreq = @ + 1,
                          !.sleep = NoSleep]]
  /\ headers' = headers \cup {jobs[j].ua}

\* fetchJson after fetchWithRetry returned a response: throw on !res.ok,
\* else parse the body (res.json() and schema.parse may throw)
fetchJsonBody(j, parsed, text) ==
  /\ jobs[j].pc \in {"json", "text"}
  /\ jobs[j].pc = "json" => text = <<>>
  /\ jobs' = [jobs EXCEPT ![j] =
       [@ EXCEPT !.pc = "done", !.text = text,
                 !.out = fetchJsonResult(jobs[j].fwr.status, jobs[j].body, parsed, text)]]
  /\ headers' = headers

(***************************************************************************)
(* fetchJson as a function of what upstream answers: `script` is the       *)
(* sequence of outcomes of the successive fetch() calls, `body` the        *)
(* payload of a 2xx answer, `parsed` whether res.json() yields it.         *)
(***************************************************************************)
\* fetchWithRetry from attempt `attempt` on: the for loop run to its end
RECURSIVE fetchWithRetry(_, _, _)
fetchWithRetry(attempt, lastErr, script) ==
  LET st == fetchWithRetryStep(attempt, lastErr, Head(script), Retries) IN
  IF st.next = "sleep"
  THEN fetchWithRetry(attempt + 1, st.lastErr, Tail(script))
  ELSE [fwr |-> st.fwr, nreq |-> attempt + 1]

\* fetchJson after requireSecUserAgent() succeeded
fetchJson(script, body, parsed) ==
  LET w == fetchWithRetry(0, "none", script) IN
  IF w.fwr.kind = "throw" THEN OutError("network", 0, w.fwr.err)
  ELSE fetchJsonResult(w.fwr.status, body, parsed, <<>>)

\* what upstream may answer to the successive requests of one fetchJson:
\* the same outcome every time, or k failures and then success
UpstreamScripts ==
  { Rep(o, Retries + 1) : o \in FewOutcomes }
  \cup { Rep(f, k) \o Rep(Http(200), Retries + 1 - k) :
           f \in {Http(503), NetErr("E1")}, k \in 1..Retries }

\* a script with the payload of its 2xx answer, if it has one
UpstreamAnswers(bodies) ==
  { [script |-> s, body |-> b, parsed |-> TRUE] : s \in UpstreamScripts, b \in bodies }
  \cup { [script |-> s, body |-> 0, parsed |-> FALSE] : s \in UpstreamScripts }

\* the outcomes of `await fetchJson(url)` over everything upstream may answer
FetchJsonOutcomes(bodies) ==
  { fetchJson(a.script, a.body, a.parsed) : a \in UpstreamAnswers(bodies) }

SubmissionsOutcomes == FetchJsonOutcomes(SnapshotIds)

(***************************************************************************)
(* Ticker table cache: getTickerMap and cikFromTicker                      *)
(***************************************************************************)
PendingPromise == [state |-> "pending", map |-> <<>>, err |-> NoOut]
NoTickerRes == [kind |-> "none", cik |-> 0, err |-> NoOut]
IdleTickerCaller == [pc |-> "idle", ticker |-> <<>>, awaits |-> 0, res |-> NoTickerRes]

InitTickerVars ==
  /\ tickerMapPromise = 0
  /\ promises = <<>>
  /\ tcallers = [c \in JobIds |-> IdleTickerCaller]
  /\ tcalls = 0

\* mutant: a failed load is forgotten, the next call loads again
NeedsLoadWhenRejected(tmp, ps) == tmp = 0 \/ ps[tmp].state = "rejected"

\* mutant: a settled table is loaded again (a refresh)
NeedsLoadWhenSettled(tmp, ps) == tmp = 0 \/ ps[tmp].state # "pending"

\* mutant: only a settled table is reused, an in-flight load is not
NeedsLoadUnlessSettled(tmp, ps) == tmp = 0 \/ ps[tmp].state = "pending"

\* getTickerMap: if (!tickerMapPromise)
NeedsLoad(tmp, ps) == tmp = 0

\* cikFromTicker(t) up to its await: getTickerMap() creates the loading promise
\* when there is none (the async function inside runs up to its first await,
\* i.e. into fetchJson) and returns tickerMapPromise, which the caller awaits
cikFromTickerCall(c, t) ==
  /\ tcallers[c].pc = "idle"
  /\ tcalls < MaxTickerCalls
  /\ tcalls' = tcalls + 1
  /\ IF NeedsLoad(tickerMapPromise, promises)
     THEN /\ Len(promises) < NJobs
          /\ LET p == Len(promises) + 1 IN
               /\ promises' = Append(promises, PendingPromise)
               /\ tickerMapPromise' = p
               /\ fetchJsonStart(p, TickersUrl)
               /\ tcallers' = [tcallers EXCEPT ![c] =
                    [IdleTickerCaller EXCEPT !.pc = "awaiting", !.ticker = t,
                                             !.awaits = p]]
     ELSE /\ tcallers' = [tcallers EXCEPT ![c] =
               [IdleTickerCaller EXCEPT !.pc = "awaiting", !.ticker = t,
                                        !.awaits = tickerMapPromise]]
          /\ UNCHANGED <<tickerMapPromise, promises, jobs, headers>>
  /\ UNCHANGED <<env, outcomes, cacheVars, streamVars, recentVars>>

Loading(p) == p \in 1..Len(promises) /\ promises[p].state = "pending"

\* the load's fetch settles
TickerLoadSettle(p, o, table) ==
  /\ Loading(p)
  /\ fetchSettled(p, o, table)
  /\ UNCHANGED <<env, outcomes, tickerVars, cacheVars, streamVars, recentVars>>

\* the load's backoff sleep ends
TickerLoadBackoff(p) ==
  /\ Loading(p)
  /\ fetchBackoffDone(p)
  /\ UNCHANGED <<env, outcomes, tickerVars, cacheVars, streamVars, recentVars>>

\* the load's fetchJson reads the body and validates it against the schema
TickerLoadBody(p, parsed) ==
  /\ Loading(p)
  /\ fetchJsonBody(p, parsed, <<>>)
  /\ UNCHANGED <<env, outcomes, tickerVars, cacheVars, streamVars, recentVars>>

\* the async function of getTickerMap resumes after `await fetchJson`: it
\* builds the map and fulfils the promise, or the promise rejects with
\* fetchJson's error
TickerLoadFinish(p) ==
  /\ Loading(p)
  /\ jobs[p].pc = "done"
  /\ promises' = [promises EXCEPT ![p] =
       IF jobs[p].out.kind = "data"
       THEN [state |-> "fulfilled",
             map |-> BuildTickerMap(TickerTables[jobs[p].out.data], <<>>),
             err |-> NoOut]
       ELSE [state |-> "rejected", map |-> <<>>, err |-> jobs[p].out]]
  /\ UNCHANGED <<fetchVars, tickerMapPromise, tcallers, tcalls, cacheVars, streamVars, recentVars>>

\* Map.prototype.get: MissingCik stands for undefined
MissingCik == 0 - 1
MapGet(m, k) == IF k \in DOMAIN m THEN m[k] ELSE MissingCik

\* cikFromTicker line 147: !cik (undefined and 0 are falsy)
NotCik(cik) == cik = MissingCik \/ cik = 0

\* cikFromTicker after `await getTickerMap()`: look the symbol up, throw
\* `Unknown ticker` when !cik; a rejected load rejects the call
cikFromTickerResume(c) ==
  /\ tcallers[c].pc = "awaiting"
  /\ LET p == promises[tcallers[c].awaits]
         cik == MapGet(p.map, toUpperCase(tcallers[c].ticker))
     IN /\ p.state # "pending"
        /\ tcallers' = [tcallers EXCEPT ![c] =
             [@ EXCEPT !.pc = "done",
                       !.res = IF p.state = "rejected"
                               THEN [kind |-> "rejected", cik |-> 0, err |-> p.err]
                               ELSE IF NotCik(cik)
                               THEN [kind |-> "unknown", cik |-> 0, err |-> NoOut]
                               ELSE [kind |-> "cik", cik |-> cik, err |-> NoOut]]]
  /\ UNCHANGED <<fetchVars, tickerMapPromise, promises, tcalls, cacheVars, streamVars, recentVars>>

\* the caller has consumed the result and may call again
cikFromTickerReturn(c) ==
  /\ tcallers[c].pc = "done"
  /\ tcallers' = [tcallers EXCEPT ![c] = IdleTickerCaller]
  /\ UNCHANGED <<fetchVars, tickerMapPromise, promises, tcalls, cacheVars, streamVars, recentVars>>

(***************************************************************************)
(* Submissions cache: getSubmissions                                       *)
(***************************************************************************)
NoEntry == [present |-> FALSE, at |-> 0, value |-> 0]
Entry(at, value) == [present |-> TRUE, at |-> at, value |-> value]

NoRes == [kind |-> "none", value |-> 0, err |-> NoOut]
ResValue(v) == [kind |-> "value", value |-> v, err |-> NoOut]
ResError(out) == [kind |-> "error", value |-> 0, err |-> out]
\* a call: its position, its locals (normalized, url, now), what its
\* `await fetchJson` produced (out) and what the call itself produced (res)
IdleCall ==
  [pc |-> "idle", key |-> <<>>, url |-> <<>>, now |-> 0, out |-> NoOut, res |-> NoRes]
DoneCall(out, res) == [IdleCall EXCEPT !.pc = "done", !.out = out, !.res = res]

InitCacheVars ==
  /\ now = 0
  /\ submissionsCache = [k \in CacheKeys |-> NoEntry]
  /\ calls = [c \in CallerIds |-> IdleCall]

\* Date.now() advances
Tick(t) ==
  /\ t > now
  /\ now' = t
  /\ UNCHANGED <<fetchVars, tickerVars, submissionsCache, calls, streamVars, recentVars>>

\* mutant: an entry whose age equals the ttl still counts as fresh
IsFreshInclusive(cached, t, cacheTtlMs) == cached.present /\ t - cached.at <= cacheTtlMs

\* getSubmissions line 192: cached && now - cached.at < cacheTtlMs
IsFresh(cached, t, cacheTtlMs) == cached.present /\ t - cached.at < cacheTtlMs

\* getSubmissions(cik, { cacheTtlMs }) up to its first await: a fresh entry is
\* returned at once; otherwise fetchJson is entered, which throws at once on a
\* bad user agent and else issues the first fetch(); `now` is kept for the
\* later cache write
getSubmissionsStart(c, cik, cacheTtlMs) ==
  LET normalized == normalizeCik(cik)
      cached == submissionsCache[normalized]
  IN calls' = [calls EXCEPT ![c] =
       IF IsFresh(cached, now, cacheTtlMs)
       THEN DoneCall(NoOut, ResValue(cached.value))
       ELSE IF ~requireSecUserAgent(env).ok
       THEN DoneCall(OutError("precondition", 0, "none"),
                     ResError(OutError("precondition", 0, "none")))
       ELSE [IdleCall EXCEPT !.pc = "fetching", !.key = normalized, !.now = now,
                             !.url = SubmissionsUrl(normalized)]]

\* mutant: on a failed fetch the stale cached snapshot is served
getSubmissionsOutcomeServeStale(out, at, cached) ==
  IF out.kind = "data"
  THEN [entry |-> Entry(at, out.data), res |-> ResValue(out.data)]
  ELSE IF cached.present
  THEN [entry |-> cached, res |-> ResValue(cached.value)]
  ELSE [entry |-> cached, res |-> ResError(out)]

\* getSubmissions lines 195-197: what the call does with fetchJson's outcome
\* (at: the `now` read before the fetch; cached: the entry now in the map)
getSubmissionsOutcome(out, at, cached) ==
  IF out.kind = "data"
  THEN [entry |-> Entry(at, out.data), res |-> ResValue(out.data)]
  ELSE [entry |-> cached, res |-> ResError(out)]

\* getSubmissions from the moment upstream has answered: fetchJson returns or
\* throws, then submissionsCache.set(normalized, { at: now, value }) and the
\* value is returned, or the call rejects with fetchJson's error
getSubmissionsFinish(c, out) ==
  LET key == calls[c].key
      r == getSubmissionsOutcome(out, calls[c].now, submissionsCache[key])
  IN /\ calls[c].pc = "fetching"
     /\ submissionsCache' = [submissionsCache EXCEPT ![key] = r.entry]
     /\ calls' = [calls EXCEPT ![c] = DoneCall(out, r.res)]

\* a client calls getSubmissions
getSubmissionsCall(c, cik, cacheTtlMs) ==
  /\ calls[c].pc = "idle"
  /\ getSubmissionsStart(c, cik, cacheTtlMs)
  /\ UNCHANGED <<fetchVars, tickerVars, now, submissionsCache, streamVars, recentVars>>

\* upstream has answered the call's fetchJson
getSubmissionsAnswered(c, out) ==
  /\ getSubmissionsFinish(c, out)
  /\ UNCHANGED <<fetchVars, tickerVars, now, streamVars, recentVars>>

\* the caller has consumed the result and may call again
getSubmissionsReturn(c) ==
  /\ calls[c].pc = "done"
  /\ calls' = [calls EXCEPT ![c] = IdleCall]
  /\ UNCHANGED <<fetchVars, tickerVars, now, submissionsCache, streamVars, recentVars>>

(***************************************************************************)
(* filings.stream: the change-detection poller                             *)
(***************************************************************************)
\* bound: the largest maxEvents a run is started with
MaxEventsBound == 3
\* input.pollIntervalSec: the minimum and the default of filingsStreamInput
PollIntervals == { 5, 30 }
\* the values Date.now() takes in a run of the poller (ms)
StreamInstants == { 0, 5000, 10000, 30000 }
\* the caller of getSubmissions that is the poller
PollerId == CHOOSE c \in CallerIds : \A d \in CallerIds : c <= d
StreamSnapshotIds == 1..Len(Snapshots)

NoEvent ==
  [kind |-> "none", accessionNumber |-> <<>>, form |-> <<>>, primaryDocUrl |-> NoUrl,
   message |-> NoOut, retryable |-> FALSE]
\* emit({ kind: 'text', text: JSON.stringify({ ..., filing: { ...latest, primaryDocUrl } }) })
FilingEvent(item, url) ==
  [kind |-> "filing", accessionNumber |-> item.accessionNumber, form |-> item.form,
   primaryDocUrl |-> url, message |-> NoOut, retryable |-> FALSE]
\* emit({ kind: 'error', code: 'stream_poll_error', message, retryable: true })
ErrorEvent(err) ==
  [kind |-> "error", accessionNumber |-> <<>>, form |-> <<>>, primaryDocUrl |-> NoUrl,
   message |-> err, retryable |-> TRUE]

\* a call of emit with its outcome (the consumer got the event, or emit threw)
\* and the number of the iteration that made it
Delivery(event, ok) ==
  [kind |-> event.kind, accessionNumber |-> event.accessionNumber, form |-> event.form,
   primaryDocUrl |-> event.primaryDocUrl, message |-> event.message,
   retryable |-> event.retryable, delivered |-> ok, iteration |-> Len(polls)]

TypeError == OutError("typeerror", 0, "none")
EmitFailure == OutError("emit", 0, "none")

\* the number of events the consumer got
Delivered(evs) == Cardinality({ i \in 1..Len(evs) : evs[i].delivered })

NoSignal == [pc |-> "none", sent |-> 0, events |-> 0, delivered |-> 0]

NoSummary == [status |-> "none", eventsSent |-> 0]

InitStreamVars ==
  /\ input = [cik |-> CikStr(<<0, 0, 7>>), forms |-> NoForms, pollIntervalSec |-> 30,
              maxEvents |-> 1]
  /\ aborted = FALSE
  /\ abortedAt = NoSignal
  /\ stream = [pc |-> "start", lastAccession |-> Null, sent |-> 0, pending |-> NoEvent,
               sleepUntil |-> 0, summary |-> NoSummary]
  /\ events = <<>>
  /\ polls = <<>>

\* filtered[0]?.accessionNumber
LatestAccession(filtered) ==
  IF filtered = <<>> THEN Undefined ELSE filtered[1].accessionNumber

\* mutant: the first matching filing is always emitted, whatever the cursor
StreamDetectNoCursor(res, formsSet, lastAccession, sent) ==
  IF res.kind = "error"
  THEN [next |-> "catch", err |-> res.err, lastAccession |-> lastAccession,
        sent |-> sent, event |-> NoEvent]
  ELSE
    LET submissions == Snapshots[res.value]
        recent == recentFilingsToItems(submissions.recent)
        filtered == SelectItems(formsSet, recent)
        latest == filtered[1]
    IN IF FilterThrows(formsSet, recent)
       THEN [next |-> "catch", err |-> TypeError, lastAccession |-> lastAccession,
             sent |-> sent, event |-> NoEvent]
       ELSE IF Truthy(LatestAccession(filtered))
       THEN [next |-> "emit", err |-> NoOut,
             lastAccession |-> latest.accessionNumber, sent |-> sent + 1,
             event |-> FilingEvent(latest, PrimaryDocUrlOf(submissions.cik, latest))]
       ELSE [next |-> "sleep", err |-> NoOut, lastAccession |-> lastAccession,
             sent |-> sent, event |-> NoEvent]

\* mutant: an iteration without a matching filing forgets the cursor
StreamDetectForgetsCursor(res, formsSet, lastAccession, sent) ==
  IF res.kind = "error"
  THEN [next |-> "catch", err |-> res.err, lastAccession |-> lastAccession,
        sent |-> sent, event |-> NoEvent]
  ELSE
    LET submissions == Snapshots[res.value]
        recent == recentFilingsToItems(submissions.recent)
        filtered == SelectItems(formsSet, recent)
        latest == filtered[1]
    IN IF FilterThrows(formsSet, recent)
       THEN [next |-> "catch", err |-> TypeError, lastAccession |-> lastAccession,
             sent |-> sent, event |-> NoEvent]
       ELSE IF /\ Truthy(LatestAccession(filtered))
               /\ latest.accessionNumber # lastAccession
       THEN [next |-> "emit", err |-> NoOut,
             lastAccession |-> latest.accessionNumber, sent |-> sent + 1,
             event |-> FilingEvent(latest, PrimaryDocUrlOf(submissions.cik, latest))]
       ELSE [next |-> "sleep", err |-> NoOut,
             lastAccession |-> IF filtered = <<>> THEN Null ELSE lastAccession,
             sent |-> sent, event |-> NoEvent]

\* the try block of one iteration from the result of `await getSubmissions`
\* up to the emit of the filing event (agent.ts:431-465)
StreamDetect(res, formsSet, lastAccession, sent) ==
  IF res.kind = "error"
  THEN [next |-> "catch", err |-> res.err, lastAccession |-> lastAccession,
        sent |-> sent, event |-> NoEvent]
  ELSE
    LET submissions == Snapshots[res.value]
        recent == recentFilingsToItems(submissions.recent)
        filtered == SelectItems(formsSet, recent)
        latest == filtered[1]
    IN IF FilterThrows(formsSet, recent)
       THEN [next |-> "catch", err |-> TypeError, lastAccession |-> lastAccession,
             sent |-> sent, event |-> NoEvent]
       ELSE IF /\ Truthy(LatestAccession(filtered))
               /\ latest.accessionNumber # lastAccession
       THEN [next |-> "emit", err |-> NoOut,
             lastAccession |-> latest.accessionNumber, sent |-> sent + 1,
             event |-> FilingEvent(latest, PrimaryDocUrlOf(submissions.cik, latest))]
       ELSE [next |-> "sleep", err |-> NoOut, lastAccession |-> lastAccession,
             sent |-> sent, event |-> NoEvent]

\* setTimeout(resolve, input.pollIntervalSec * 1000)
Sleeping(s) == [s EXCEPT !.pc = "sleeping", !.sleepUntil = now + input.pollIntervalSec * 1000,
                         !.pending = NoEvent]

\* mutant: the status is always 'succeeded'
StreamSummaryAlwaysSucceeded(isAborted, sent) ==
  [status |-> "succeeded", eventsSent |-> sent]

\* mutant: the status is decided by the count alone
StreamSummaryBySent(isAborted, sent) ==
  [status |-> IF sent >= input.maxEvents THEN "succeeded" ELSE "cancelled",
   eventsSent |-> sent]

\* the return statement of the stream function (agent.ts:481-484)
StreamSummary(isAborted, sent) ==
  [status |-> IF isAborted THEN "cancelled" ELSE "succeeded", eventsSent |-> sent]

\* mutant: the loop condition does not look at maxEvents
LoopConditionNoBound(isAborted, sent, maxEvents) == ~isAborted

\* mutant: the loop condition does not look at the signal
LoopConditionIgnoresAbort(isAborted, sent, maxEvents) == sent < maxEvents

\* mutant: the loop runs while sent <= maxEvents
LoopConditionOffByOne(isAborted, sent, maxEvents) == ~isAborted /\ sent <= maxEvents

\* while (!ctx.signal.aborted && sent < input.maxEvents)
LoopCondition(isAborted, sent, maxEvents) == ~isAborted /\ sent < maxEvents

\* the head of the while loop: either the next iteration starts with the call
\* of getSubmissions(cik, { cacheTtlMs: 5_000 }), or the function returns
LoopHead ==
  IF LoopCondition(aborted, stream.sent, input.maxEvents)
  THEN /\ getSubmissionsStart(PollerId, input.cik, StreamCacheTtlMs)
       /\ stream' = [stream EXCEPT !.pc = "fetching", !.sleepUntil = 0]
  ELSE /\ stream' = [stream EXCEPT !.pc = "returned", !.sleepUntil = 0,
                                   !.summary = StreamSummary(aborted, stream.sent)]
       /\ UNCHANGED calls

\* the stream function is entered (the identifier is given as input.cik)
StreamBegin ==
  /\ stream.pc = "start"
  /\ LoopHead
  /\ UNCHANGED <<fetchVars, tickerVars, now, submissionsCache, recentVars, input, aborted, abortedAt, events, polls>>

\* upstream has answered the fetchJson of the poller's getSubmissions call
StreamAnswered(out) ==
  /\ stream.pc = "fetching"
  /\ getSubmissionsFinish(PollerId, out)
  /\ UNCHANGED <<fetchVars, tickerVars, now, streamVars, recentVars>>

\* the iteration resumes after `await getSubmissions`: normalise, filter,
\* compare with the cursor; then emit the filing event, or emit the error
\* event from the catch block, or go to the poll interval sleep
StreamIteration ==
  /\ stream.pc = "fetching"
  /\ calls[PollerId].pc = "done"
  /\ LET res == calls[PollerId].res
         r == StreamDetect(res, FormsSet(input.forms), stream.lastAccession, stream.sent)
         s == [stream EXCEPT !.lastAccession = r.lastAccession, !.sent = r.sent]
     IN /\ stream' = CASE r.next = "emit" -> [s EXCEPT !.pc = "emitting", !.pending = r.event]
                       [] r.next = "catch" ->
                            [s EXCEPT !.pc = "emittingError", !.pending = ErrorEvent(r.err)]
                       [] OTHER -> Sleeping(s)
        /\ polls' = Append(polls, IF res.kind = "value" THEN res.value ELSE 0)
  /\ calls' = [calls EXCEPT ![PollerId] = IdleCall]
  /\ UNCHANGED <<fetchVars, tickerVars, now, submissionsCache, recentVars, input, aborted, abortedAt, events>>

\* mutant: the error event is emitted after every filing event (a `finally`
\* in place of the `catch`)
StreamEmittedFinally(ok) ==
  /\ stream.pc = "emitting"
  /\ events' = Append(events, Delivery(stream.pending, ok))
  /\ stream' = [stream EXCEPT !.pc = "emittingError",
                              !.pending = ErrorEvent(EmitFailure)]
  /\ UNCHANGED <<fetchVars, tickerVars, cacheVars, recentVars, input, aborted, abortedAt, polls>>

\* `await emit(filing event)` settles: delivered, or emit throws and the catch
\* block emits the error event
StreamEmitted(ok) ==
  /\ stream.pc = "emitting"
  /\ IF ok
     THEN /\ events' = Append(events, Delivery(stream.pending, TRUE))
          /\ stream' = Sleeping(stream)
     ELSE /\ events' = Append(events, Delivery(stream.pending, FALSE))
          /\ stream' = [stream EXCEPT !.pc = "emittingError",
                                      !.pending = ErrorEvent(EmitFailure)]
  /\ UNCHANGED <<fetchVars, tickerVars, cacheVars, recentVars, input, aborted, abortedAt, polls>>

\* `await emit(error event)` in the catch block settles: delivered, or emit
\* throws and the exception leaves the stream function
StreamErrorEmitted(ok) ==
  /\ stream.pc = "emittingError"
  /\ IF ok
     THEN /\ events' = Append(events, Delivery(stream.pending, TRUE))
          /\ stream' = Sleeping(stream)
     ELSE /\ events' = Append(events, Delivery(stream.pending, FALSE))
          /\ stream' = [stream EXCEPT !.pc = "threw", !.pending = NoEvent]
  /\ UNCHANGED <<fetchVars, tickerVars, cacheVars, recentVars, input, aborted, abortedAt, polls>>

\* the poll interval timer fires and the loop condition is evaluated
StreamTimer ==
  /\ stream.pc = "sleeping"
  /\ now >= stream.sleepUntil
  /\ LoopHead
  /\ UNCHANGED <<fetchVars, tickerVars, now, submissionsCache, recentVars, input, aborted, abortedAt, events, polls>>

\* the consumer cancels: ctx.signal.aborted becomes true
StreamAbort ==
  /\ ~aborted
  /\ stream.pc \notin {"returned", "threw"}
  /\ aborted' = TRUE
  /\ abortedAt' = [pc |-> stream.pc, sent |-> stream.sent, events |-> Len(events),
                   delivered |-> Delivered(events)]
  /\ UNCHANGED <<fetchVars, tickerVars, cacheVars, recentVars, input, stream, events, polls>>

(***************************************************************************)
(* filings.recent: the listing handler                                     *)
(***************************************************************************)
\* the submissions documents upstream may answer to the handler: those of
\* the poller, one with two dashes in the accession numbers and a document
\* column shorter than the accession column, and one with an empty block
Acc320193 ==
  <<"0", "0", "0", "0", "3", "2", "0", "1", "9", "3", "-", "2", "4", "-",
    "0", "0", "0", "1", "2", "3">>
Acc320193b ==
  <<"0", "0", "0", "0", "3", "2", "0", "1", "9", "3", "-", "2", "4", "-",
    "0", "0", "0", "1", "2", "2">>
DocHtm == <<"d", "o", "c", ".", "h", "t", "m">>
ListingSnapshots ==
  Snapshots \o
  << Snapshot(CikStr(<<0, 0, 0, 0, 3, 2, 0, 1, 9, 3>>),
       Recent(<<Acc320193, Acc320193b>>, <<Date1, Date1>>, <<Form10K, Form10k>>,
              Column(<<DocHtm>>), NoColumn)),
     Snapshot(CikStr(<<0, 0, 7>>),
       Recent(<<>>, <<>>, <<>>, Column(<<>>), NoColumn)) >>
ListingSnapshotIds == 1..Len(ListingSnapshots)

\* input.limit (1..50, default 10) and input.forms
LimitValues == { 1, 2, 10 }
FormsValues == { NoForms, Forms(<<>>), Forms(<<Form10k>>), Forms(<<Form8K, Form10k>>) }

\* the getSubmissions caller that is the handler
ListingCaller == CHOOSE c \in CallerIds : \A d \in CallerIds : c <= d

\* { ...item, primaryDocUrl }
WithPrimaryDocUrl(cik, item) ==
  [accessionNumber |-> item.accessionNumber, filingDate |-> item.filingDate,
   form |-> item.form, primaryDocument |-> item.primaryDocument, size |-> item.size,
   primaryDocUrl |-> PrimaryDocUrlOf(cik, item)]

NoListing == [kind |-> "none", cik |-> CikNum(0), filings |-> <<>>, err |-> NoOut]

\* mutant: the limit is applied before the form filter
filingsRecentSliceFirst(submissions, forms, limit) ==
  LET items == recentFilingsToItems(submissions.recent)
      formsSet == FormsSet(forms)
      filings == SelectItems(formsSet, Slice(items, limit))
  IN IF FilterThrows(formsSet, items)
     THEN [NoListing EXCEPT !.kind = "error", !.err = TypeError]
     ELSE [NoListing EXCEPT !.kind = "output", !.cik = submissions.cik,
             !.filings = [k \in 1..Len(filings) |->
                            WithPrimaryDocUrl(submissions.cik, filings[k])]]

\* the handler after `await getSubmissions(cik)`: normalise, filter by form,
\* slice(0, limit), add the primary document URL (agent.ts:220-247)
filingsRecent(submissions, forms, limit) ==
  LET items == recentFilingsToItems(submissions.recent)
      formsSet == FormsSet(forms)
      filings == Slice(SelectItems(formsSet, items), limit)
  IN IF FilterThrows(formsSet, items)
     THEN [NoListing EXCEPT !.kind = "error", !.err = TypeError]
     ELSE [NoListing EXCEPT !.kind = "output", !.cik = submissions.cik,
             !.filings = [k \in 1..Len(filings) |->
                            WithPrimaryDocUrl(submissions.cik, filings[k])]]

IdleListing ==
  [pc |-> "idle", cik |-> CikNum(0), forms |-> NoForms, limit |-> 0, submissions |-> 0,
   items |-> <<>>, output |-> NoListing]

InitRecentVars == listing = IdleListing

\* the handler is entered with a cik in ctx.input and calls getSubmissions(cik)
filingsRecentCall(cik, forms, limit) ==
  /\ listing.pc = "idle"
  /\ getSubmissionsStart(ListingCaller, cik, DefaultCacheTtlMs)
  /\ listing' = [IdleListing EXCEPT !.pc = "fetching", !.cik = cik, !.forms = forms,
                                    !.limit = limit]
  /\ UNCHANGED <<fetchVars, tickerVars, now, submissionsCache, streamVars>>

\* upstream has answered the fetchJson of the handler's getSubmissions call
filingsRecentAnswered(out) ==
  /\ listing.pc = "fetching"
  /\ getSubmissionsFinish(ListingCaller, out)
  /\ UNCHANGED <<fetchVars, tickerVars, now, streamVars, recentVars>>

\* the handler resumes after `await getSubmissions`: it rejects with the
\* error of getSubmissions or of the filter, or returns the output
filingsRecentResume ==
  /\ listing.pc = "fetching"
  /\ calls[ListingCaller].pc = "done"
  /\ LET res == calls[ListingCaller].res IN
       listing' =
         IF res.kind = "error"
         THEN [listing EXCEPT !.pc = "done",
                 !.output = [NoListing EXCEPT !.kind = "error", !.err = res.err]]
         ELSE [listing EXCEPT !.pc = "done", !.submissions = res.value,
                 !.items = recentFilingsToItems(ListingSnapshots[res.value].recent),
                 !.output = filingsRecent(ListingSnapshots[res.value], listing.forms,
                                          listing.limit)]
  /\ calls' = [calls EXCEPT ![ListingCaller] = IdleCall]
  /\ UNCHANGED <<fetchVars, tickerVars, now, submissionsCache, streamVars>>

\* the response has been sent; the next request may come
filingsRecentReturn ==
  /\ listing.pc = "done"
  /\ listing' = IdleListing
  /\ UNCHANGED <<fetchVars, tickerVars, cacheVars, streamVars>>

(***************************************************************************)
(* Specification of one fetchJson call against an arbitrary upstream       *)
(***************************************************************************)
InitFetchVars ==
  /\ jobs = [j \in JobIds |-> IdleJob]
  /\ outcomes = <<>>
  /\ headers = {}

FetchCall ==
  /\ jobs[1].pc = "idle"
  /\ fetchJsonStart(1, TickersUrl)
  /\ UNCHANGED <<env, outcomes, tickerVars, cacheVars, streamVars, recentVars>>

FetchSettle ==
  \E o \in AllOutcomes :
    /\ fetchSettled(1, o, 1)
    /\ outcomes' = Append(outcomes, o)
    /\ UNCHANGED <<env, tickerVars, cacheVars, streamVars, recentVars>>

FetchBackoff ==
  /\ fetchBackoffDone(1)
  /\ UNCHANGED <<env, outcomes, tickerVars, cacheVars, streamVars, recentVars>>

FetchBody ==
  \E parsed \in BOOLEAN, text \in ErrorBodies :
    /\ fetchJsonBody(1, parsed, text)
    /\ UNCHANGED <<env, outcomes, tickerVars, cacheVars, streamVars, recentVars>>

InitFetch ==
  /\ env \in UserAgentValues
  /\ InitFetchVars
  /\ InitTickerVars
  /\ InitCacheVars
  /\ InitStreamVars
  /\ InitRecentVars

NextFetch ==
  \/ FetchCall
  \/ FetchSettle
  \/ FetchBackoff
  \/ FetchBody

SpecFetch == InitFetch /\ [][NextFetch]_vars

(***************************************************************************)
(* Specification of concurrent cikFromTicker callers                       *)
(***************************************************************************)
ValidUserAgent == EnvStr(Rep("a", 10))

InitTicker ==
  /\ env \in {ValidUserAgent, EnvUnset}
  /\ InitFetchVars
  /\ InitTickerVars
  /\ InitCacheVars
  /\ InitStreamVars
  /\ InitRecentVars

TickerCall == \E c \in JobIds, t \in TickerInputs : cikFromTickerCall(c, t)
TickerSettle ==
  \E p \in JobIds, o \in FewOutcomes, table \in 1..Len(TickerTables) :
    TickerLoadSettle(p, o, table)
TickerBackoff == \E p \in JobIds : TickerLoadBackoff(p)
TickerBody == \E p \in JobIds, parsed \in BOOLEAN : TickerLoadBody(p, parsed)
TickerFinish == \E p \in JobIds : TickerLoadFinish(p)
TickerResume == \E c \in JobIds : cikFromTickerResume(c)
TickerReturn == \E c \in JobIds : cikFromTickerReturn(c)

NextTicker ==
  \/ TickerCall
  \/ TickerSettle
  \/ TickerBackoff
  \/ TickerBody
  \/ TickerFinish
  \/ TickerResume
  \/ TickerReturn

SpecTicker == InitTicker /\ [][NextTicker]_vars

(***************************************************************************)
(* Specification of concurrent getSubmissions callers                      *)
(***************************************************************************)
InitCache ==
  /\ env \in {ValidUserAgent, EnvUnset}
  /\ InitFetchVars
  /\ InitTickerVars
  /\ InitCacheVars
  /\ InitStreamVars
  /\ InitRecentVars

CacheTick == \E t \in ClockInstants : Tick(t)
CacheCall ==
  \E c \in CallerIds, cik \in CikInputs, ttl \in TtlValues : getSubmissionsCall(c, cik, ttl)
CacheAnswered ==
  \E c \in CallerIds, out \in SubmissionsOutcomes : getSubmissionsAnswered(c, out)
CacheReturn == \E c \in CallerIds : getSubmissionsReturn(c)

NextCache ==
  \/ CacheTick
  \/ CacheCall
  \/ CacheAnswered
  \/ CacheReturn

SpecCache == InitCache /\ [][NextCache]_vars

(***************************************************************************)
(* Specification of one filings.stream invocation                          *)
(***************************************************************************)
StreamOutcomes ==
  { o \in FetchJsonOutcomes(StreamSnapshotIds) : o.cause \in {"none", "network"} }

InitStream ==
  /\ env \in {ValidUserAgent, EnvUnset}
  /\ InitFetchVars
  /\ InitTickerVars
  /\ InitCacheVars
  /\ input \in [cik : {CikStr(<<0, 0, 7>>)}, forms : {NoForms, Forms(<<Form10k>>)},
                pollIntervalSec : PollIntervals, maxEvents : 1..MaxEventsBound]
  /\ aborted = FALSE
  /\ abortedAt = NoSignal
  /\ stream = [pc |-> "start", lastAccession |-> Null, sent |-> 0, pending |-> NoEvent,
               sleepUntil |-> 0, summary |-> NoSummary]
  /\ events = <<>>
  /\ polls = <<>>
  /\ InitRecentVars

StreamTick == \E t \in StreamInstants : Tick(t)
StreamUpstream == \E out \in StreamOutcomes : StreamAnswered(out)
StreamEmit == \E ok \in BOOLEAN : StreamEmitted(ok)
StreamEmitError == \E ok \in BOOLEAN : StreamErrorEmitted(ok)

NextStream ==
  \/ StreamBegin
  \/ StreamUpstream
  \/ StreamIteration
  \/ StreamEmit
  \/ StreamEmitError
  \/ StreamTimer
  \/ StreamAbort
  \/ StreamTick

SpecStream == InitStream /\ [][NextStream]_vars

(***************************************************************************)
(* Specification of successive filings.recent requests                     *)
(***************************************************************************)
ListingOutcomes ==
  { o \in FetchJsonOutcomes(ListingSnapshotIds) : o.cause \in {"none", "http"} }

InitRecent ==
  /\ env \in {ValidUserAgent, EnvUnset}
  /\ InitFetchVars
  /\ InitTickerVars
  /\ InitCacheVars
  /\ InitStreamVars
  /\ InitRecentVars

RecentTick == \E t \in ClockInstants : Tick(t)
RecentCall ==
  \E cik \in CikInputs, forms \in FormsValues, limit \in LimitValues :
    filingsRecentCall(cik, forms, limit)
RecentAnswered == \E out \in ListingOutcomes : filingsRecentAnswered(out)
RecentResume == filingsRecentResume
RecentReturn == filingsRecentReturn

NextRecent ==
  \/ RecentTick
  \/ RecentCall
  \/ RecentAnswered
  \/ RecentResume
  \/ RecentReturn

SpecRecent == InitRecent /\ [][NextRecent]_vars

(***************************************************************************)
(* Specification of one fetchJson call with the waits between its attempts *)
(***************************************************************************)
InitBackoff ==
  /\ env = ValidUserAgent
  /\ InitFetchVars
  /\ InitTickerVars
  /\ InitCacheVars
  /\ InitStreamVars
  /\ InitRecentVars

BackoffCall ==
  /\ jobs[1].pc = "idle"
  /\ fetchJsonStart(1, TickersUrl)
  /\ UNCHANGED <<env, outcomes, tickerVars, cacheVars, streamVars, recentVars>>

BackoffAnswered ==
  \E o \in AllOutcomes, retryAfter \in RetryAfterValues, random \in RandomValues :
    /\ o.kind # "http" => retryAfter = Null
    /\ fetchAnswered(1, o, 1, retryAfter, random)
    /\ UNCHANGED <<env, outcomes, tickerVars, cacheVars, streamVars, recentVars>>

BackoffDone ==
  /\ fetchBackoffDone(1)
  /\ UNCHANGED <<env, outcomes, tickerVars, cacheVars, streamVars, recentVars>>

BackoffBody ==
  \E parsed \in BOOLEAN :
    /\ fetchJsonBody(1, parsed, <<>>)
    /\ UNCHANGED <<env, outcomes, tickerVars, cacheVars, streamVars, recentVars>>

NextBackoff ==
  \/ BackoffCall
  \/ BackoffAnswered
  \/ BackoffDone
  \/ BackoffBody

SpecBackoff == InitBackoff /\ [][NextBackoff]_vars

(***************************************************************************)
(* Specification of one filings.stream invocation in which every awaited   *)
(* operation settles: upstream answers, emit settles, the clock advances   *)
(* and the poll timer fires                                                *)
(***************************************************************************)
InitCancel ==
  /\ env = ValidUserAgent
  /\ InitFetchVars
  /\ InitTickerVars
  /\ InitCacheVars
  /\ input \in [cik : {CikStr(<<0, 0, 7>>)}, forms : {NoForms},
                pollIntervalSec : {5}, maxEvents : 1..MaxEventsBound]
  /\ aborted = FALSE
  /\ abortedAt = NoSignal
  /\ stream = [pc |-> "start", lastAccession |-> Null, sent |-> 0, pending |-> NoEvent,
               sleepUntil |-> 0, summary |-> NoSummary]
  /\ events = <<>>
  /\ polls = <<>>
  /\ InitRecentVars

SpecCancel ==
  /\ InitCancel
  /\ [][NextStream]_vars
  /\ WF_vars(StreamBegin)
  /\ WF_vars(StreamUpstream)
  /\ WF_vars(StreamIteration)
  /\ WF_vars(StreamEmit)
  /\ WF_vars(StreamEmitError)
  /\ WF_vars(StreamTimer)
  /\ WF_vars(StreamTick)

(***************************************************************************)
(* Claims about the retrying fetcher (checked under SpecFetch)             *)
(***************************************************************************)
TransientStatuses == {429, 408, 500, 502, 503, 504}

IsTransientOutcome(o) == o.kind = "neterr" \/ o.status \in TransientStatuses

\* attempt i (counted from 1) was followed by a retry: a later request exists
\* or the loop is in the backoff sleep that precedes it
Retried(i) ==
  \/ jobs[1].nreq > i
  \/ (i = Len(outcomes) /\ jobs[1].pc = "backoff")

\* C4: one fetchWithRetry call issues at most retries + 1 = 5 requests, has
\* returned or thrown once the 5th outcome is in, and issues no request after
\* a 2xx or non-transient response.
C4_BoundedRetries ==
  /\ jobs[1].nreq <= 5
  /\ Len(outcomes) <= jobs[1].nreq
  /\ (Len(outcomes) = 5 => jobs[1].fwr.kind \in {"response", "throw"})
  /\ \A i \in 1..Len(outcomes) :
       (outcomes[i].kind = "http" /\ outcomes[i].status \notin TransientStatuses)
         => /\ jobs[1].nreq = i
            /\ jobs[1].fwr.kind = "response"

C4_Witness ==
  /\ jobs[1].nreq = 5
  /\ Len(outcomes) = 5
  /\ \A i \in 1..5 : IsTransientOutcome(outcomes[i])
  /\ jobs[1].fwr.kind \in {"response", "throw"}

\* C5: an attempt is followed by a retry iff it is not the last (5th) attempt
\* and it raised a network exception or returned 429/408/500/502/503/504; any
\* other status is returned as-is without retry (after exactly one attempt
\* when it answers the first request).
C5_TransientClassification ==
  \A i \in 1..Len(outcomes) :
    /\ Retried(i) <=> (i < 5 /\ IsTransientOutcome(outcomes[i]))
    /\ (outcomes[i].kind = "http" /\ outcomes[i].status \notin TransientStatuses)
         => /\ jobs[1].fwr = FwrResponse(outcomes[i].status)
            /\ jobs[1].nreq = i
            /\ jobs[1].attempt = i - 1

C5_Witness ==
  /\ outcomes = <<Http(404)>>
  /\ jobs[1].fwr = FwrResponse(404)
  /\ jobs[1].nreq = 1

\* C6: when 5 outcomes were consumed, fetchWithRetry returned the 5th response
\* if the 5th attempt produced an HTTP response (even a transient one) and
\* threw the 5th attempt's exception if it raised one; it throws in no other case.
C6_ExhaustionAsymmetry ==
  /\ Len(outcomes) = 5 =>
       IF outcomes[5].kind = "http"
       THEN jobs[1].fwr = FwrResponse(outcomes[5].status)
       ELSE jobs[1].fwr = FwrThrow(outcomes[5].err)
  /\ jobs[1].fwr.kind = "throw" =>
       /\ Len(outcomes) = 5
       /\ outcomes[5].kind = "neterr"
       /\ jobs[1].fwr.err = outcomes[5].err

C6_Witness ==
  /\ Len(outcomes) = 5
  /\ outcomes[1] = NetErr("E1")
  /\ outcomes[5] = Http(503)
  /\ jobs[1].fwr = FwrResponse(503)

\* C7: k transient failures (k in 0..4) followed by a 2xx response: the call
\* returns that 2xx response after exactly k + 1 requests.
C7_SuccessAfterTransients ==
  \A k \in 0..4 :
    ( /\ Len(outcomes) = k + 1
      /\ \A i \in 1..k : IsTransientOutcome(outcomes[i])
      /\ outcomes[k + 1].kind = "http"
      /\ outcomes[k + 1].status >= 200
      /\ outcomes[k + 1].status <= 299 )
    => /\ jobs[1].fwr = FwrResponse(outcomes[k + 1].status)
       /\ jobs[1].nreq = k + 1

C7_Witness ==
  /\ outcomes = <<Http(503), Http(503), Http(503), Http(200)>>
  /\ jobs[1].fwr = FwrResponse(200)
  /\ jobs[1].nreq = 4

\* C8: with SEC_USER_AGENT unset or of trimmed length below 10, fetchJson
\* fails with the precondition error with no request issued and no attempt
\* consumed; with a valid value every request carries it as User-Agent.
UserAgentInvalid == ~env.set \/ Len(Trim(env.val)) < 10

C8_UserAgentPrecondition ==
  \A j \in JobIds :
    IF UserAgentInvalid
    THEN /\ headers = {}
         /\ jobs[j].nreq = 0
         /\ jobs[j].attempt = 0
         /\ jobs[j].pc \in {"idle", "done"}
         /\ jobs[j].pc = "done" => jobs[j].out = OutError("precondition", 0, "none")
    ELSE /\ headers \subseteq {env.val}
         /\ jobs[j].nreq > 0 => headers = {env.val}
         /\ jobs[j].pc # "idle" => jobs[j].nreq > 0
         /\ jobs[j].out.cause # "precondition"

C8_Witness ==
  /\ env = EnvStr(<<" ">> \o Rep("a", 9) \o <<" ">>)
  /\ jobs[1].pc = "done"
  /\ jobs[1].out.cause = "precondition"
  /\ jobs[1].nreq = 0


\* C22: a finished fetchJson gave data only if the last response was 2xx; a
\* non-transient non-2xx first response gives, after exactly one request, an
\* error with that status and the first 200 characters of the body at most;
\* a transient status on all 5 attempts gives, after exactly 5 requests, an
\* error with the status of the 5th response.
C22_HttpFailureIsError ==
  jobs[1].pc = "done" =>
    LET n == Len(outcomes)
        out == jobs[1].out
    IN /\ out.kind = "data" =>
            /\ n >= 1
            /\ outcomes[n].kind = "http"
            /\ outcomes[n].status \in 200..299
       /\ (n >= 1 /\ outcomes[n].kind = "http" /\ outcomes[n].status \notin 200..299) =>
            /\ out.kind = "error"
            /\ out.cause = "http"
            /\ out.status = outcomes[n].status
            /\ Len(out.excerpt) <= 200
            /\ out.excerpt = SubSeq(jobs[1].text, 1, Len(out.excerpt))
            /\ Len(jobs[1].text) <= 200 => out.excerpt = jobs[1].text
            /\ outcomes[n].status \notin TransientStatuses => jobs[1].nreq = n
            /\ (n = 1 /\ outcomes[1].status \notin TransientStatuses) => jobs[1].nreq = 1
            /\ outcomes[n].status \in TransientStatuses =>
                 /\ n = 5
                 /\ jobs[1].nreq = 5
                 /\ \A i \in 1..5 : IsTransientOutcome(outcomes[i])

\* a 404 with a body of 201 characters: one request, the excerpt has 200
C22_Witness ==
  /\ jobs[1].pc = "done"
  /\ outcomes = <<Http(404)>>
  /\ jobs[1].nreq = 1
  /\ Len(jobs[1].text) = 201
  /\ jobs[1].out.status = 404
  /\ Len(jobs[1].out.excerpt) = 200
(***************************************************************************)
(* Claims about the ticker table cache (checked under SpecTicker)          *)
(***************************************************************************)
\* C1: however many cikFromTicker/getTickerMap calls start before the first
\* bulk download has completed, exactly one download (one fetchJson of the
\* ticker table) is started, and every such caller awaits that one promise.
C1_TickerSingleFlight ==
  /\ Len(promises) <= 1
  /\ (tcalls > 0 => Len(promises) = 1 /\ tickerMapPromise = 1)
  /\ \A j \in JobIds : j > 1 => jobs[j].pc = "idle"
  /\ \A c \in JobIds :
       tcallers[c].pc = "awaiting" => tcallers[c].awaits = 1

C1_Witness ==
  /\ Len(promises) = 1
  /\ promises[1].state = "pending"
  /\ jobs[1].pc = "backoff"
  /\ \A c \in JobIds : tcallers[c].pc = "awaiting" /\ tcallers[c].awaits = 1

\* the rows of the table a fulfilled load read, and what it holds for a symbol
LoadedRows(p) == TickerTables[jobs[p].out.data]
Symbols(rows) == { toUpperCase(rows[i].ticker) : i \in 1..Len(rows) }
LastRowFor(rows, u) ==
  CHOOSE i \in 1..Len(rows) :
    /\ toUpperCase(rows[i].ticker) = u
    /\ \A k \in 1..Len(rows) : toUpperCase(rows[k].ticker) = u => k <= i
Answered(c) ==
  /\ tcallers[c].pc = "done"
  /\ promises[tcallers[c].awaits].state = "fulfilled"

\* C23 as claimed: with the table loaded, cikFromTicker(t) returns the
\* identifier stored for uppercase(t) when that symbol is in the table, and
\* raises 'Unknown ticker' exactly when it is not; the table is downloaded
\* once.
C23_AsClaimed ==
  \A c \in JobIds :
    Answered(c) =>
      LET rows == LoadedRows(tcallers[c].awaits)
          u == toUpperCase(tcallers[c].ticker)
      IN /\ tcallers[c].res.kind = "unknown" <=> u \notin Symbols(rows)
         /\ u \in Symbols(rows) =>
              /\ tcallers[c].res.kind = "cik"
              /\ tcallers[c].res.cik = rows[LastRowFor(rows, u)].cik_str
         /\ Len(promises) = 1

TableLoaded == Len(promises) >= 1 /\ promises[1].state = "fulfilled"

\* C24: once the table is loaded, no step issues an upstream request or
\* replaces the table or the promise, and every answer for a symbol is the
\* one the loaded table gives.
C24_TableRetained ==
  /\ [][TableLoaded =>
          /\ jobs' = jobs
          /\ promises' = promises
          /\ tickerMapPromise' = tickerMapPromise]_vars
  /\ [](TableLoaded =>
          \A c \in JobIds :
            tcallers[c].pc = "done" =>
              /\ tcallers[c].awaits = 1
              /\ tcallers[c].res.kind \in {"cik", "unknown"}
              /\ tcallers[c].res.kind = "cik" =>
                   tcallers[c].res.cik
                     = MapGet(promises[1].map, toUpperCase(tcallers[c].ticker)))

\* four calls by three callers: one of them called again after the load
C24_Witness ==
  /\ TableLoaded
  /\ Len(promises) = 1
  /\ tcalls = 4
  /\ jobs[1].nreq = 1
  /\ \E c \in JobIds : tcallers[c].pc = "done" /\ tcallers[c].res.kind = "cik"

\* C29: the loaded table has exactly the upper-cased symbols of the rows and
\* maps a symbol that occurs in several rows to the identifier of the last.
C29_LastDuplicateWins ==
  \A p \in 1..Len(promises) :
    promises[p].state = "fulfilled" =>
      LET rows == LoadedRows(p) IN
      /\ DOMAIN promises[p].map = Symbols(rows)
      /\ \A u \in Symbols(rows) :
           promises[p].map[u] = rows[LastRowFor(rows, u)].cik_str

\* table 1 has ab -> 7 and later AB -> 8: the table holds 8, and a caller got it
C29_Witness ==
  /\ TableLoaded
  /\ jobs[1].out.data = 1
  /\ promises[1].map[<<"A", "B">>] = 8
  /\ \E c \in JobIds :
       /\ tcallers[c].pc = "done"
       /\ tcallers[c].ticker = <<"a", "b">>
       /\ tcallers[c].res.cik = 8


TableFailed == Len(promises) >= 1 /\ promises[1].state = "rejected"

\* C35: at most one bulk download is ever started; once it has failed, no
\* step issues an upstream request or replaces the promise, and every later
\* cikFromTicker call rejects with the error of that one download.
C35_FailedLoadRetained ==
  /\ [](/\ Len(promises) <= 1
        /\ \A j \in JobIds : j > 1 => jobs[j] = IdleJob)
  /\ [][TableFailed =>
          /\ jobs' = jobs
          /\ promises' = promises
          /\ tickerMapPromise' = tickerMapPromise]_vars
  /\ [](TableFailed =>
          /\ tickerMapPromise = 1
          /\ promises[1].err = jobs[1].out
          /\ promises[1].err.cause \in {"precondition", "network", "http", "parse"}
          /\ \A c \in JobIds :
               tcallers[c].pc = "done" =>
                 /\ tcallers[c].awaits = 1
                 /\ tcallers[c].res.kind = "rejected"
                 /\ tcallers[c].res.err = promises[1].err)

\* the download failed after its five requests; a fourth call, made after
\* that, is rejected with the same error
C35_Witness ==
  /\ TableFailed
  /\ promises[1].err.cause = "network"
  /\ jobs[1].nreq = 5
  /\ tcalls = 4
  /\ \A c \in JobIds : tcallers[c].pc = "done" /\ tcallers[c].res.err = promises[1].err

(***************************************************************************)
(* Claims about the submissions cache (checked under SpecCache)            *)
(***************************************************************************)
Fetching == { c \in CallerIds : calls[c].pc = "fetching" }
FetchingNext == { c \in CallerIds : calls'[c].pc = "fetching" }

\* a getSubmissions call that finds an entry for its identifier
C2_CallStep(c, cik, T) ==
  LET key == normalizeCik(cik)
      e == submissionsCache[key]
  IN (getSubmissionsCall(c, cik, T) /\ e.present) =>
       IF now - e.at < T
       THEN \* fresh hit: the cached snapshot, and no fetch is started
            /\ calls'[c].pc = "done"
            /\ calls'[c].res = ResValue(e.value)
            /\ FetchingNext = Fetching
       ELSE \* age >= T: exactly one fetch is started, by this call
            /\ FetchingNext = Fetching \cup {c}
            /\ c \notin Fetching
            /\ calls'[c].key = key
       
\* a successful fetch stores the value under the time the call started at
C2_StoreStep(c) ==
  (calls[c].pc = "fetching" /\ calls'[c].pc = "done" /\ calls'[c].res.kind = "value")
    => /\ submissionsCache'[calls[c].key] = Entry(calls[c].now, calls'[c].res.value)
       /\ calls[c].now <= now

\* C2: once an identifier has an entry (stored by a successful call under the
\* time that call started at), a call for it with ttl T returns the cached
\* snapshot without any fetch when now - at < T and starts exactly one fetch
\* when now - at >= T (T = 30000 ms by default: a second call within 30 s of
\* the first causes no fetch, a call 30 s or more after it causes a second).
C2_CacheTtl ==
  [][ /\ \A c \in CallerIds, cik \in CikInputs, T \in {5000, 30000} : C2_CallStep(c, cik, T)
      /\ \A c \in CallerIds : C2_StoreStep(c) ]_vars

C2_Witness ==
  /\ now = 30000
  /\ submissionsCache[<<7>>] = Entry(0, 1)
  /\ calls[1].pc = "fetching" /\ calls[1].key = <<7>> /\ calls[1].now = 30000
  /\ calls[2] = DoneCall(NoOut, ResValue(1))

\* C3: when the fetch of a getSubmissions call fails (network exhaustion,
\* non-2xx final response, body parse failure), the call leaves every cache
\* entry as it is and rejects with the fetch error; it does not return the
\* stale snapshot.
C3_FailureKeepsEntry ==
  [][ \A c \in CallerIds :
        ( /\ calls[c].pc = "fetching"
          /\ calls'[c].pc = "done"
          /\ calls'[c].out.kind = "error" )
        => /\ submissionsCache' = submissionsCache
           /\ calls'[c].res = ResError(calls'[c].out)
           /\ calls'[c].out.cause \in {"network", "http", "parse"} ]_vars

C3_Witness ==
  /\ now = 30000
  /\ submissionsCache[<<7>>] = Entry(0, 1)
  /\ calls[1] = DoneCall(OutError("network", 0, "E1"), ResError(OutError("network", 0, "E1")))
  /\ calls[2].pc = "idle"

\* C20 as claimed: overlapping getSubmissions calls for one identifier share
\* one upstream fetch: no two calls are ever each awaiting a fetchJson of
\* their own for the same cache key.
C20_AsClaimed ==
  \A c, d \in CallerIds :
    (c # d /\ calls[c].pc = "fetching" /\ calls[d].pc = "fetching")
      => calls[c].key # calls[d].key

\* C21 as claimed: every write of a cache entry stores the value and the
\* timestamp of one successful call, and an entry is never replaced by one
\* with an older timestamp: the stored timestamp of a key never decreases.
C21_AsClaimed ==
  [][\A k \in CacheKeys :
       submissionsCache'[k] # submissionsCache[k] =>
         /\ \E c \in CallerIds :
              /\ calls[c].pc = "fetching" /\ calls[c].key = k
              /\ calls'[c].pc = "done" /\ calls'[c].out.kind = "data"
              /\ submissionsCache'[k] = Entry(calls[c].now, calls'[c].out.data)
         /\ submissionsCache[k].present =>
              submissionsCache'[k].at >= submissionsCache[k].at]_vars

(***************************************************************************)
(* Claims about the change-detection poller                                *)
(***************************************************************************)
\* the rows of snapshot s, in upstream order, that pass the form filter
MatchingRows(s) ==
  LET recent == Snapshots[s].recent
      wanted == { toUpperCase(input.forms.vals[i]) : i \in 1..Len(input.forms.vals) }
  IN { k \in 1..Len(recent.accessionNumber) :
         \/ wanted = {}
         \/ k <= Len(recent.form) /\ toUpperCase(recent.form[k]) \in wanted }
LatestExists(s) == MatchingRows(s) # {}
LatestRow(s) == CHOOSE k \in MatchingRows(s) : \A m \in MatchingRows(s) : k <= m
LatestAccessionOf(s) == Snapshots[s].recent.accessionNumber[LatestRow(s)]

\* the filing events emit was called with, in order, delivered or not
RECURSIVE FilingAccessions(_)
FilingAccessions(evs) ==
  IF evs = <<>> THEN <<>>
  ELSE IF Head(evs).kind = "filing"
       THEN <<Head(evs).accessionNumber>> \o FilingAccessions(Tail(evs))
       ELSE FilingAccessions(Tail(evs))
PreviousAccession ==
  LET f == FilingAccessions(events) IN IF f = <<>> THEN Null ELSE f[Len(f)]

\* a step in which an iteration of the poller got the records and went
\* through its try block without an exception
IterationStep ==
  /\ stream.pc = "fetching"
  /\ calls[PollerId].pc = "done"
  /\ calls[PollerId].res.kind = "value"
  /\ stream'.pc \in {"emitting", "sleeping"}
EmitsFiling == stream'.pc = "emitting" /\ stream'.pending.kind = "filing"

\* C9 as claimed: in an iteration a filing event is emitted if and only if
\* latest (the first record passing the form filter) exists and its accession
\* number differs from the cursor, and then the cursor becomes that accession.
C9_AsClaimed ==
  [][IterationStep =>
       LET s == calls[PollerId].res.value IN
       /\ EmitsFiling <=> (LatestExists(s) /\ LatestAccessionOf(s) # stream.lastAccession)
       /\ EmitsFiling => stream'.lastAccession = LatestAccessionOf(s)]_vars

\* C9 as amended: the cursor is the accession number of the filing event emit
\* was last called with (null before the first); in an iteration that gets
\* the records without error, emit is called with a filing event if and only
\* if latest exists, its accession number is not empty and differs from the
\* cursor; the event carries latest's accession number, the cursor becomes
\* that number, and it differs from the number of the previous filing event.
C9_ChangeDetection ==
  [][IterationStep =>
       LET s == calls[PollerId].res.value IN
       /\ stream.lastAccession = PreviousAccession
       /\ EmitsFiling <=> /\ LatestExists(s)
                          /\ LatestAccessionOf(s) # <<>>
                          /\ LatestAccessionOf(s) # stream.lastAccession
       /\ EmitsFiling => /\ stream'.pending.accessionNumber = LatestAccessionOf(s)
                         /\ stream'.lastAccession = LatestAccessionOf(s)
                         /\ stream'.pending.accessionNumber # PreviousAccession
       /\ ~EmitsFiling => stream'.lastAccession = stream.lastAccession]_vars

\* three polls: A emitted, A again not emitted, then X emitted
C9_Witness ==
  /\ polls = <<1, 1, 2>>
  /\ ~input.forms.present
  /\ FilingAccessions(events) = <<AccA, AccX>>
  /\ stream.lastAccession = AccX

NoFailures == \A i \in 1..Len(events) : events[i].kind = "filing" /\ events[i].delivered

\* C10: when the stream function returns 'succeeded', emit was called with
\* exactly maxEvents filing events and eventsSent = maxEvents; if moreover
\* nothing failed, the consumer got exactly these events, and with
\* maxEvents = 2 and latest matching accessions A at the first poll and B at
\* the second they are A then B.
C10_StreamingScenario ==
  (stream.pc = "returned" /\ stream.summary.status = "succeeded") =>
     /\ ~aborted
     /\ stream.summary.eventsSent = input.maxEvents
     /\ Len(FilingAccessions(events)) = input.maxEvents
     /\ NoFailures =>
          /\ Len(events) = input.maxEvents
          /\ (/\ input.maxEvents = 2
              /\ LatestExists(polls[1]) /\ LatestAccessionOf(polls[1]) = AccA
              /\ LatestExists(polls[2]) /\ LatestAccessionOf(polls[2]) = AccB)
             => /\ Len(polls) = 2
                /\ FilingAccessions(events) = <<AccA, AccB>>

\* the scenario has run: A, then B (form filter 10-k), then the summary
C10_Witness ==
  /\ stream.pc = "returned"
  /\ ~aborted
  /\ NoFailures
  /\ input.maxEvents = 2
  /\ input.forms.present
  /\ polls = <<1, 2>>
  /\ FilingAccessions(events) = <<AccA, AccB>>
  /\ stream.summary = [status |-> "succeeded", eventsSent |-> 2]

(***************************************************************************)
(* Claims about failures and cancellation in the poller                    *)
(***************************************************************************)
\* a step in which the try block of an iteration fails: the fetch, the
\* normalisation or the filter threw, or `await emit(filing event)` threw
IterationFails ==
  /\ stream.pc \in {"fetching", "emitting"}
  /\ stream'.pc = "emittingError"

\* C11 as claimed: when a step of an iteration fails, one error event with
\* retryable = true and the failure message is emitted, the cursor and the
\* emitted count are what they were before the iteration (the accession of
\* the last filing event before it, and the number of filing events before
\* it), and once the error event is out the loop goes on with the sleep.
C11_AsClaimed ==
  [][/\ IterationFails =>
          /\ stream'.pending.kind = "error"
          /\ stream'.pending.retryable
          /\ stream'.pending.message # NoOut
          /\ stream'.lastAccession = PreviousAccession
          /\ stream'.sent = Len(FilingAccessions(events))
     /\ (stream.pc = "emittingError" /\ Len(events') > Len(events)
             /\ events'[Len(events')].delivered)
          => stream'.pc = "sleeping"]_vars

\* C12 as claimed: whatever fails after the loop has started, the stream
\* function never ends by throwing.
C12_AsClaimed == stream.pc # "threw"

\* C13 as claimed: once cancellation is signalled during the poll interval
\* sleep, the poller does not stay asleep while the clock moves on to a later
\* instant: the loop ends on the signal, not on the timer.
C13_AsClaimed ==
  [][(stream.pc = "sleeping" /\ aborted /\ stream'.pc = "sleeping") => now' = now]_vars

C15_AsClaimed ==
  /\ stream.sent = input.maxEvents => stream.pc \notin {"fetching", "sleeping"}
  /\ (stream.pc = "returned" /\ abortedAt.pc = "sleeping"
        /\ abortedAt.sent = input.maxEvents)
       => stream.summary.status = "succeeded"

\* C15 as amended: once the count has reached maxEvents there is no further
\* fetch; the iteration ends with its poll interval sleep, the only step out
\* of that sleep is the return, and the status is 'cancelled' if the signal
\* was set before the return (also when set after the last event) and
\* 'succeeded' otherwise, with eventsSent = maxEvents.
C15_MaxEventsEndsLoop ==
  /\ [](stream.sent = input.maxEvents =>
          /\ stream.pc # "fetching"
          /\ stream.pc = "returned" =>
               stream.summary = [status |-> IF aborted THEN "cancelled" ELSE "succeeded",
                                 eventsSent |-> input.maxEvents])
  /\ [][(stream.sent = input.maxEvents /\ stream.pc = "sleeping" /\ stream' # stream)
          => stream'.pc = "returned"]_vars

\* the signal was set in the sleep that follows the last event: 'cancelled'
C15_Witness ==
  /\ stream.pc = "returned"
  /\ abortedAt.pc = "sleeping"
  /\ abortedAt.sent = input.maxEvents
  /\ Delivered(events) = input.maxEvents
  /\ stream.summary = [status |-> "cancelled", eventsSent |-> input.maxEvents]

\* C16: once the signal is set the poller makes no new getSubmissions call;
\* only the iteration in progress runs on, and the consumer gets at most one
\* more event than it had when the signal was set.
C16_CancelBeforeIteration ==
  /\ [](aborted => Delivered(events) <= abortedAt.delivered + 1)
  /\ [][aborted =>
          /\ stream.pc # "fetching" => stream'.pc # "fetching"
          /\ calls[PollerId].pc # "fetching" => calls'[PollerId].pc # "fetching"
          /\ abortedAt.pc # "fetching" => polls' = polls]_vars

\* the signal was set during a fetch; that iteration delivered its event and
\* the function returned without another poll
C16_Witness ==
  /\ abortedAt.pc = "fetching"
  /\ stream.pc = "returned"
  /\ Delivered(events) = abortedAt.delivered + 1
  /\ Len(polls) = 1

\* C17: the events reach the consumer in the order of the iterations that
\* made them, at most one per iteration, and while a fetch of the poller is
\* in flight no emit is outstanding (every event of an earlier iteration has
\* been delivered or has failed).
C17_EventOrdering ==
  /\ \A i, j \in 1..Len(events) :
       (i < j /\ events[i].delivered /\ events[j].delivered)
         => events[i].iteration < events[j].iteration
  /\ \A i \in 1..Len(events) : events[i].iteration \in 1..Len(polls)
  /\ stream.pc = "fetching" =>
       /\ stream.pending = NoEvent
       /\ \A i \in 1..Len(events) : events[i].iteration <= Len(polls)
  /\ stream.pc \in {"emitting", "emittingError"} =>
       \A i \in 1..Len(events) :
         events[i].delivered => events[i].iteration < Len(polls)

\* an error event of iteration 1, then filing events of iterations 2 and 3
C17_Witness ==
  /\ Len(events) = 3
  /\ \A i \in 1..3 : events[i].delivered /\ events[i].iteration = i
  /\ events[1].kind = "error"
  /\ events[2].kind = "filing"
  /\ events[3].kind = "filing"

\* the filing events the consumer got
DeliveredFilings ==
  Cardinality({ i \in 1..Len(events) : events[i].kind = "filing" /\ events[i].delivered })

\* C18 as claimed: the eventsSent of the summary is the number of filing
\* events delivered to the consumer.
C18_AsClaimed ==
  stream.pc = "returned" => stream.summary.eventsSent = DeliveredFilings

C30_AsClaimed ==
  LET f == FilingAccessions(events)
  IN \A i, j \in 1..Len(f) : f[i] = f[j] => i = j

\* an iteration resumes with the records of a snapshot
IterationResumes ==
  /\ stream.pc = "fetching"
  /\ calls[PollerId].pc = "done"
  /\ calls[PollerId].res.kind = "value"
  /\ stream' # stream

\* C33: an iteration in which no record passes the form filter (or the
\* snapshot has no recent filings) emits nothing and leaves the cursor and the
\* count as they are, and an iteration that observes the accession held by
\* the cursor emits no filing event.
C33_EmptyWindow ==
  [][IterationResumes =>
       LET s == calls[PollerId].res.value IN
       /\ ~LatestExists(s) =>
            /\ stream'.pc = "sleeping"
            /\ stream'.pending = NoEvent
            /\ stream'.lastAccession = stream.lastAccession
            /\ stream'.sent = stream.sent
            /\ events' = events
       /\ (LatestExists(s) /\ LatestAccessionOf(s) = stream.lastAccession) =>
            /\ stream'.pending.kind # "filing"
            /\ stream'.lastAccession = stream.lastAccession
            /\ stream'.sent = stream.sent
            /\ events' = events]_vars

\* forms [10-k]: A emitted, then a snapshot holding only an 8-K, then A again
C33_Witness ==
  /\ polls = <<1, 6, 1>>
  /\ input.forms = Forms(<<Form10k>>)
  /\ stream.pc = "sleeping"
  /\ stream.sent = 1
  /\ stream.lastAccession = AccA
  /\ FilingAccessions(events) = <<AccA>>

\* C34: the lone poller is never served from the cache: every iteration it
\* starts issues an upstream fetch (with a valid user agent; without one
\* fetchJson throws before any request), the entry of its previous iteration
\* being at least 5000 ms old when the poll timer has fired.
C34_ForcedFreshness ==
  [][(stream.pc \in {"start", "sleeping"} /\ stream'.pc = "fetching") =>
       LET key == normalizeCik(input.cik) IN
       /\ calls'[PollerId].res.kind # "value"
       /\ requireSecUserAgent(env).ok => calls'[PollerId].pc = "fetching"
       /\ submissionsCache[key].present => now - submissionsCache[key].at >= 5000]_vars

\* interval 5 s: the second iteration starts when the entry stored by the
\* first is exactly 5000 ms old, and fetches
C34_Witness ==
  /\ input.pollIntervalSec = 5
  /\ Len(polls) = 1
  /\ stream.pc = "fetching"
  /\ calls[PollerId].pc = "fetching"
  /\ submissionsCache[<<7>>].present
  /\ now - submissionsCache[<<7>>].at = 5000

\* the poller sleeps past the last instant of the clock of the model
ClockHorizon ==
  stream.pc = "sleeping" /\ \A t \in StreamInstants : t < stream.sleepUntil

\* C36 as claimed: once the signal is set, the stream function eventually
\* returns its summary, with status 'cancelled'.
C36_AsClaimed ==
  aborted ~> \/ stream.pc = "returned" /\ stream.summary.status = "cancelled"
             \/ ClockHorizon

(***************************************************************************)
(* Claims about the normaliser, the identifier forms, the document URL and *)
(* the listing (checked under SpecRecent)                                  *)
(***************************************************************************)
Listed == listing.pc = "done" /\ listing.submissions # 0
ListedRecent == ListingSnapshots[listing.submissions].recent

\* position i of an optional column, null when the column is absent or shorter
OptionalAt(col, i) ==
  IF col.present /\ i <= Len(col.vals) THEN col.vals[i] ELSE Null

\* C25: the normaliser returns one record per accession number, in the same
\* order; record i has the entries at position i of the accession, date and
\* form sequences, and for an optional attribute the entry at position i or
\* null when its sequence is absent or shorter; an absent block gives the
\* empty sequence and no error.
C25_Normaliser ==
  Listed =>
    LET r == ListedRecent
        items == listing.items
    IN IF ~r.present
       THEN items = <<>> /\ listing.output.kind = "output"
       ELSE /\ Len(items) = Len(r.accessionNumber)
            /\ \A i \in 1..Len(items) :
                 /\ items[i].accessionNumber = r.accessionNumber[i]
                 /\ i <= Len(r.filingDate) => items[i].filingDate = r.filingDate[i]
                 /\ i <= Len(r.form) => items[i].form = r.form[i]
                 /\ items[i].primaryDocument = OptionalAt(r.primaryDocument, i)
                 /\ items[i].size = OptionalAt(r.size, i)

\* two rows, a document column of length one and no size column
C25_Witness ==
  /\ Listed
  /\ Len(listing.items) = 2
  /\ listing.items[1].accessionNumber = Acc320193
  /\ listing.items[1].primaryDocument = DocHtm
  /\ listing.items[2].accessionNumber = Acc320193b
  /\ listing.items[2].primaryDocument = Null
  /\ listing.items[2].size = Null

\* the identifier as a number or a string of digits, without leading zeros
CanonicalDigits(cik) ==
  IF cik.type = "number" THEN NumToString(cik.num)
  ELSE LET k == CHOOSE k \in 0..Len(cik.str) :
                  /\ \A i \in 1..k : cik.str[i] = 0
                  /\ (k < Len(cik.str) => cik.str[k + 1] # 0)
       IN IF k = Len(cik.str) THEN <<0>> ELSE SubSeq(cik.str, k + 1, Len(cik.str))

\* C26: whatever the form of the identifier, the getSubmissions call uses
\* the unpadded decimal form as cache key and requests CIK{10 digits}.json
\* with that value left-padded with zeros; normalizeCik is idempotent; the
\* cache has entries under canonical keys only; the identifier zero included.
C26_IdentifierCanonical ==
  /\ (listing.pc = "fetching" /\ calls[ListingCaller].pc = "fetching") =>
       LET key == calls[ListingCaller].key
           seg == calls[ListingCaller].url[2]
       IN /\ key = CanonicalDigits(listing.cik)
          /\ normalizeCik(CikStr(key)) = key
          /\ Len(seg) = 10
          /\ SubSeq(seg, 10 - Len(key) + 1, 10) = key
          /\ \A i \in 1..(10 - Len(key)) : seg[i] = 0
  /\ \A k \in DOMAIN submissionsCache :
       submissionsCache[k].present => k = CanonicalDigits(CikStr(k))
  /\ \A cik \in CikInputs \cup {CikNum(0), CikStr(<<0, 0>>)} :
       /\ normalizeCik(cik) = CanonicalDigits(cik)
       /\ Len(padCik(normalizeCik(cik))) = 10

\* a request for '007' is answered from the entry stored under the key 7
C26_Witness ==
  /\ listing.pc = "fetching"
  /\ listing.cik = CikStr(<<0, 0, 7>>)
  /\ submissionsCache[<<7>>].present
  /\ calls[ListingCaller] = DoneCall(NoOut, ResValue(submissionsCache[<<7>>].value))

NotDash(c) == c # "-"

\* C27: the URL of a listed filing has the identifier of the snapshot without
\* leading zeros, the accession number with every dash removed, and the
\* document name as it is; identifier 320193, accession 0000320193-24-000123
\* and document doc.htm give data/320193/000032019324000123/doc.htm.
C27_PrimaryDocUrl ==
  (Listed /\ listing.output.kind = "output") =>
    \A k \in 1..Len(listing.output.filings) :
      LET f == listing.output.filings[k] IN
      f.primaryDocUrl.present =>
        /\ f.primaryDocUrl.cik = CanonicalDigits(listing.output.cik)
        /\ f.primaryDocUrl.acc = SelectSeq(f.accessionNumber, NotDash)
        /\ f.primaryDocUrl.doc = f.primaryDocument
        /\ (f.accessionNumber = Acc320193 /\ f.primaryDocument = DocHtm) =>
             f.primaryDocUrl =
               [present |-> TRUE, cik |-> <<3, 2, 0, 1, 9, 3>>,
                acc |-> <<"0", "0", "0", "0", "3", "2", "0", "1", "9", "3", "2", "4",
                          "0", "0", "0", "1", "2", "3">>,
                doc |-> DocHtm]

C27_Witness ==
  /\ Listed
  /\ listing.output.kind = "output"
  /\ Len(listing.output.filings) >= 1
  /\ listing.output.filings[1].accessionNumber = Acc320193
  /\ listing.output.filings[1].primaryDocUrl.present
  /\ Len(listing.output.filings[1].primaryDocUrl.acc) = 18

\* the positions of the normalised records whose form is asked for
WantedForms ==
  { toUpperCase(listing.forms.vals[i]) : i \in 1..Len(listing.forms.vals) }
MatchingItems ==
  { i \in 1..Len(listing.items) :
      WantedForms = {} \/ toUpperCase(listing.items[i].form) \in WantedForms }
NthMatching(k) ==
  CHOOSE i \in MatchingItems : Cardinality({ m \in MatchingItems : m <= i }) = k

\* C28: the listing is the first `limit` records, in upstream order, of the
\* normalised records whose form is, ignoring case, one of the forms asked
\* for (all records when no form is asked for).
C28_Listing ==
  (Listed /\ listing.output.kind = "output") =>
    LET filings == listing.output.filings
        n == Cardinality(MatchingItems)
    IN /\ Len(filings) = (IF n <= listing.limit THEN n ELSE listing.limit)
       /\ \A k \in 1..Len(filings) :
            LET item == listing.items[NthMatching(k)] IN
            /\ filings[k].accessionNumber = item.accessionNumber
            /\ filings[k].form = item.form
            /\ filings[k].filingDate = item.filingDate
            /\ filings[k].primaryDocument = item.primaryDocument
            /\ filings[k].size = item.size

\* forms [8-K, 10-k], limit 1, rows X (8-K), B (10-k), A (10-K): X alone
C28_Witness ==
  /\ Listed
  /\ listing.submissions = 2
  /\ listing.forms = Forms(<<Form8K, Form10k>>)
  /\ listing.limit = 1
  /\ Len(listing.output.filings) = 1
  /\ listing.output.filings[1].accessionNumber = AccX

(***************************************************************************)
(* Claims about the wait between two attempts (checked under SpecBackoff)  *)
(***************************************************************************)
InBackoff == jobs[1].pc = "backoff"
\* what the wait exceeds 350 * 2^k by, k the number of the failed attempt
ExcessMs == jobs[1].sleep.ms.n - 350 * (2 ^ jobs[1].attempt)

\* C31 as claimed: without retry-after directive the wait after failed
\* attempt k is 350 * 2^k ms plus a jitter j with 0 <= j < 150.
C31_AsClaimed ==
  (InBackoff /\ jobs[1].sleep.retryAfter = Null) =>
    /\ jobs[1].attempt \in 0..3
    /\ ~jobs[1].sleep.ms.nan
    /\ ExcessMs >= 0 /\ ExcessMs < 150

\* C31: without retry-after directive the wait after failed attempt k
\* (k = 0..3) is 350 * 2^k ms plus a jitter j with 0 <= j <= 150, after a
\* transient response and after a network failure alike.
C31_BackoffSchedule ==
  (InBackoff /\ jobs[1].sleep.retryAfter = Null) =>
    /\ jobs[1].attempt \in 0..3
    /\ jobs[1].sleep.branch \in {"try", "catch"}
    /\ ~jobs[1].sleep.ms.nan
    /\ ExcessMs >= 0 /\ ExcessMs <= 150

\* the fourth attempt failed at network level: 2800 ms and a jitter of 75 ms
C31_Witness ==
  /\ InBackoff
  /\ jobs[1].attempt = 3
  /\ jobs[1].sleep.branch = "catch"
  /\ jobs[1].sleep.ms = Num(2875)

\* C32 as claimed: when the transient response carries a retry-after header
\* the wait is never shorter than the computed backoff of that attempt.
C32_AsClaimed ==
  (InBackoff /\ jobs[1].sleep.branch = "try" /\ jobs[1].sleep.retryAfter # Null) =>
    /\ ~jobs[1].sleep.ms.nan
    /\ jobs[1].sleep.ms.n >= jobs[1].sleep.backoffMs + jobs[1].sleep.jitterMs

====
